---- MODULE Spec2Model ----
(***************************************************************************)
(* Model of the instrumented sorting engine (class SortingAlgorithms):     *)
(* one invocation of SortingAlgorithms.sort(array, algorithm), executed    *)
(* statement block by statement block.  Arrays are objects of a heap, so   *)
(* that copying ([...a]) and aliasing are distinguishable.                 *)
(***************************************************************************)
EXTENDS Integers, Sequences, FiniteSets, TLC

\* ------------------------------------------------------------------ bounds
MaxLen == 4          \* longest generated caller array
MaxVal == 3          \* caller arrays hold values 1..MaxVal
SmallLimit == 3      \* a configured MAX_ARRAY_SIZE small enough to be exceeded
MaxElapsed == 1      \* Date.now() - startTime ranges over 0..MaxElapsed
PairMaxLen == 3      \* longest caller array of the two-invocation runs
PairMaxVal == 2      \* their arrays hold values 1..PairMaxVal
MaxList == 2         \* longest list of algorithms a compare request names
MaxRequests == 32    \* requests one client sends
MaxMinutes == 1      \* minutes the clock runs
MaxConnections == 4  \* connections the clients hold

\* ------------------------------------------------------------ JS values
\* swapIndices: null
Null == <<>>
\* a value of the parameter `array` that is not an array object
NonArray == 0
\* `|| 1000` in the size check
DefaultMaxArraySize == 1000

\* the golden input of the bubble scenario
GoldenInput == <<5, 3, 1, 4, 2>>

\* an input whose first partition leaves work on both sides of the pivot
TwoSidedInput == <<2, 1, 3, 3, 3>>

SeqsUpTo(S, n) == UNION {[1..k -> S] : k \in 0..n}
Inputs == SeqsUpTo(1..MaxVal, MaxLen) \cup {GoldenInput, TwoSidedInput}

\* identifiers a caller may pass as `algorithm`
Algorithms == {"bubble", "quick", "selection", "insertion", "QUICK", "heap", "HEAP"}

\* process.env.MAX_ARRAY_SIZE: unset, or a string of digits denoting num
EnvSettings == {[set |-> FALSE, num |-> 0], [set |-> TRUE, num |-> 0],
                [set |-> TRUE, num |-> SmallLimit]}

VARIABLES
  heap,            \* the array objects: heap[r] is the content of object r
  env,             \* process.env.MAX_ARRAY_SIZE
  array,           \* sort's parameter: a reference into heap, or NonArray
  algorithm,       \* sort's parameter
  callerInput,     \* content of the caller's array when sort was called
  pc,              \* position of the invocation
  steps,           \* executor local: the trace under construction
  sortedArray,     \* executor local: reference of the working copy
  comparisonCount, \* executor local
  i, j,            \* loop variables
  swapped,         \* bubbleSort
  minIndex,        \* selectionSort
  key,             \* insertionSort
  pivot, low, high,\* partition
  stack,           \* pending quickSortHelper calls, innermost first
  result,          \* the returned bundle
  error,           \* the thrown error's message
  self,            \* which invocation the variables above belong to
  parked,          \* the other invocation of a two-invocation run, suspended
  alone,           \* what the invocation returned when it ran alone
  valueEnv,        \* process.env.MIN_ARRAY_VALUE and MAX_ARRAY_VALUE
  req,             \* the request being served
  sent,            \* the request as the client sent it
  stage,           \* position of the request in its route
  res,             \* the response
  sessions,        \* table sessions
  stepRows,        \* table steps
  perfRows,        \* table algorithm_performance
  original,        \* compare: reference of session.originalArray
  algorithmList,   \* compare: the algorithms still to run
  comparisons,     \* compare: the map algorithm -> entry
  calls,           \* number of calls of SortingAlgorithms.sort by the handler
  rateEnv,         \* process.env.RATE_LIMIT_MAX_REQUESTS
  now,             \* the clock, in ms
  generalLimiter,  \* the client's entry in the store of generalLimiter
  sortLimiter,     \* the client's entry in the store of sortLimiter
  readLimiter,     \* the client's entry in the store of readLimiter
  attempts,        \* requests the client has sent
  onlyReads,       \* all of them were read operations
  lastStatus,      \* 429, or 200 for a request the limiters let pass
  readRejected,    \* a read operation was answered 429
  legacy,          \* what the legacy bubbleSort returned
  sessionsRes,     \* the response of a request on /api/sessions
  nodeEnv,         \* process.env.NODE_ENV
  err,             \* the error passed to next(err)
  errorStage,      \* "running", "thrown" or "responded"
  errorRes,        \* the response sent by errorHandler
  responses,       \* how many times errorHandler called res.json
  node,            \* the server process: startServer, the HTTP server, the pool
  connections      \* the HTTP connections of the clients

\* the invocations of a two-invocation run
pairVars == <<self, parked, alone>>

\* the request, its response and the store
webVars == <<valueEnv, req, sent, stage, res, sessions, stepRows, perfRows,
             original, algorithmList, comparisons, calls>>

\* the limiters and the client's traffic
rateVars == <<rateEnv, now, generalLimiter, sortLimiter, readLimiter, attempts,
              onlyReads, lastStatus, readRejected>>

\* the other parts of the repository: the legacy server
errorVars == <<nodeEnv, err, errorStage, errorRes, responses>>
downVars == <<node, connections>>
extraVars == <<legacy, sessionsRes, errorVars, downVars>>

\* everything outside one sort call
outer == <<pairVars, webVars, rateVars, extraVars>>

callVars == <<env, array, algorithm, callerInput, outer>>
locals == <<steps, sortedArray, comparisonCount, i, j, swapped, minIndex, key,
            pivot, low, high, stack>>
vars == <<heap, callVars, pc, locals, result, error>>

NoResult == [steps |-> <<>>, sortedArray |-> 0, executionTime |-> 0,
             algorithmType |-> "", totalComparisons |-> 0]
NoError == ""

\* the variables of one invocation: its parameters, position, locals, outcome
Frame == [id |-> self, array |-> array, algorithm |-> algorithm,
          callerInput |-> callerInput, pc |-> pc, steps |-> steps,
          sortedArray |-> sortedArray, comparisonCount |-> comparisonCount,
          i |-> i, j |-> j, swapped |-> swapped, minIndex |-> minIndex,
          key |-> key, pivot |-> pivot, low |-> low, high |-> high,
          stack |-> stack, result |-> result, error |-> error]

\* an invocation of sort(ref, alg) that has not executed a statement yet
NewFrame(name, ref, alg, content) ==
  [id |-> name, array |-> ref, algorithm |-> alg, callerInput |-> content,
   pc |-> "sort", steps |-> <<>>, sortedArray |-> 0, comparisonCount |-> 0,
   i |-> 0, j |-> 0, swapped |-> FALSE, minIndex |-> 0, key |-> 0,
   pivot |-> 0, low |-> 0, high |-> 0, stack |-> <<>>,
   result |-> NoResult, error |-> NoError]

NoFrame == [NewFrame("none", 0, "", <<>>) EXCEPT !.pc = "none"]

\* what a finished invocation handed to its caller, arrays by content
NoOutcome == [ended |-> "none", trace |-> <<>>, sortedArray |-> <<>>,
              totalComparisons |-> 0, algorithmType |-> "", error |-> NoError]

\* no second invocation exists
PairIdle == self = "R" /\ parked = NoFrame /\ alone = NoOutcome

\* a key that a request does not carry (undefined)
Absent == "undefined"

\* an environment variable that is not set
Unset == [set |-> FALSE, num |-> 0]

NoReq == [route |-> "none", numbers |-> <<>>, algorithm |-> Absent,
          sessionId |-> "", algorithms |-> <<>>]

NoRes == [status |-> 0, error |-> "", algorithm |-> "", steps |-> 0,
          finalArray |-> <<>>, totalComparisons |-> 0]

\* const comparisons = {}
EmptyMap == <<>>

\* no request is being served and the store is empty
WebIdle ==
  /\ valueEnv = [min |-> Unset, max |-> Unset]
  /\ req = NoReq /\ sent = NoReq /\ stage = "idle" /\ res = NoRes
  /\ sessions = <<>> /\ stepRows = <<>> /\ perfRows = <<>>
  /\ original = 0 /\ algorithmList = <<>> /\ comparisons = EmptyMap
  /\ calls = 0

\* an entry of a limiter's store: the hits of the window that ends at resetTime
NoHits == [hits |-> 0, resetTime |-> 0]

\* no traffic has reached the limiters
RateIdle ==
  /\ rateEnv = Unset
  /\ now = 0
  /\ generalLimiter = NoHits /\ sortLimiter = NoHits /\ readLimiter = NoHits
  /\ attempts = 0 /\ onlyReads = TRUE /\ lastStatus = 0 /\ readRejected = FALSE

\* the legacy bubbleSort has not been called
NoLegacy == [steps |-> <<>>, sortedArray |-> <<>>]

\* the other parts of the repository are at rest
\* no error and no response of errorHandler
NoErr == [name |-> "", statusCode |-> 0, message |-> <<>>, isJoi |-> FALSE,
          details |-> <<>>, stack |-> FALSE]
NoErrorRes == [status |-> 0, error |-> <<>>, stack |-> FALSE]
ErrorIdle ==
  /\ nodeEnv = "" /\ err = NoErr /\ errorStage = "idle"
  /\ errorRes = NoErrorRes /\ responses = 0
\* the process before startServer is called: the module has registered
\* gracefulShutdown for SIGTERM and SIGINT
NoNode == [process |-> "running", exitCode |-> 0, startServer |-> "idle",
           server |-> "none", closeCallback |-> FALSE, db |-> "idle",
           timer |-> FALSE, listeners |-> <<"gracefulShutdown">>,
           signal |-> ""]
NoConnections == [c \in 1..MaxConnections |-> "none"]
DownIdle == node = NoNode /\ connections = NoConnections
ExtraIdle == legacy = NoLegacy /\ sessionsRes = NoRes /\ ErrorIdle /\ DownIdle

\* ------------------------------------------------------------- helpers
\* a[k] with the zero-based index of the source
At(a, k) == a[k + 1]

\* a with a[k] = v
Put(a, k, v) == [a EXCEPT ![k + 1] = v]

\* a swap that overwrites a[x] before reading it
SwapLossy(a, x, y) == [a EXCEPT ![x + 1] = a[y + 1], ![y + 1] = a[y + 1]]

\* [a[x], a[y]] = [a[y], a[x]]
Swap(a, x, y) == [a EXCEPT ![x + 1] = a[y + 1], ![y + 1] = a[x + 1]]

\* Array.isArray(v)
IsArray(v) == v # NonArray

\* a size limit that ignores the configuration
MaxArraySizeFixed(e) == DefaultMaxArraySize

\* parseInt(process.env.MAX_ARRAY_SIZE) || 1000 : NaN (unset) and 0 are falsy
MaxArraySize(e) == IF (~e.set) \/ e.num = 0 THEN DefaultMaxArraySize ELSE e.num

\* the sortedness test with < in place of <=
IsAlreadySortedStrict(a) == \A k \in 0..(Len(a) - 1) : k = 0 \/ At(a, k - 1) < At(a, k)

\* array.every((val, i) => i === 0 || array[i - 1] <= val)
IsAlreadySorted(a) == \A k \in 0..(Len(a) - 1) : k = 0 \/ At(a, k - 1) <= At(a, k)

\* algorithm.toLowerCase() on the identifiers of Algorithms
ToLowerCase(s) == CASE s = "QUICK" -> "quick"
                    [] s = "HEAP" -> "heap"
                    [] OTHER -> s

\* the object [...a] allocates: the reference of the new array
NewRef(h) == Len(h) + 1

\* the heap after [...h[r]] was evaluated
Spread(h, r) == Append(h, h[r])

\* { array: [...sortedArray], swapIndices, comparisonCount } with the copy at ref
Step(ref, indices, count) == [array |-> ref, swapIndices |-> indices,
                              comparisonCount |-> count]

Init ==
  /\ \/ \E a \in Inputs : heap = <<a>> /\ array = 1 /\ callerInput = a
     \/ heap = <<>> /\ array = NonArray /\ callerInput = <<>>
  /\ env \in EnvSettings
  /\ algorithm \in Algorithms
  /\ pc = "sort"
  /\ steps = <<>> /\ sortedArray = 0 /\ comparisonCount = 0
  /\ i = 0 /\ j = 0 /\ swapped = FALSE /\ minIndex = 0 /\ key = 0
  /\ pivot = 0 /\ low = 0 /\ high = 0 /\ stack = <<>>
  /\ result = NoResult
  /\ error = NoError
  /\ PairIdle
  /\ WebIdle
  /\ RateIdle
  /\ ExtraIdle

\* throw new Error(msg), logged and rethrown by the catch block
Throw(msg) ==
  /\ pc' = "failed"
  /\ error' = msg
  /\ UNCHANGED <<heap, callVars, locals, result>>

\* sort(array, algorithm): the checks, the fast path and the dispatch
Sort ==
  /\ pc = "sort"
  /\ IF ~IsArray(array) THEN Throw("Input must be an array")
     ELSE IF Len(heap[array]) = 0 THEN Throw("Array cannot be empty")
     ELSE IF Len(heap[array]) > MaxArraySize(env)
       THEN Throw("Array size exceeds maximum limit")
     ELSE IF IsAlreadySorted(heap[array])
       THEN /\ heap' = Spread(Spread(heap, array), array)
            /\ result' = [steps |-> <<Step(NewRef(heap), Null, 0)>>,
                          sortedArray |-> NewRef(heap) + 1,
                          executionTime |-> 0,
                          algorithmType |-> algorithm,
                          totalComparisons |-> 0]
            /\ pc' = "done"
            /\ UNCHANGED <<callVars, locals, error>>
     ELSE IF ToLowerCase(algorithm) \in {"bubble", "quick", "selection", "insertion"}
       THEN /\ pc' = ToLowerCase(algorithm)
            /\ UNCHANGED <<heap, callVars, locals, result, error>>
     ELSE Throw("Unsupported sorting algorithm")

\* an opening that works on the caller's array instead of a copy of it
PrologueAlias ==
  /\ heap' = Spread(heap, array)
  /\ sortedArray' = array
  /\ comparisonCount' = 0
  /\ steps' = <<Step(NewRef(heap), Null, 0)>>

\* the common opening of the four executors:
\* steps = [], sortedArray = [...arr], comparisonCount = 0, steps.push(step 0)
Prologue ==
  /\ heap' = Spread(Spread(heap, array), NewRef(heap))
  /\ sortedArray' = NewRef(heap)
  /\ comparisonCount' = 0
  /\ steps' = <<Step(NewRef(heap) + 1, Null, 0)>>

\* a return that reports the number of recorded mutations as totalComparisons
ReturnStepCount(name) ==
  /\ \E t \in 0..MaxElapsed :
       result' = [steps |-> steps, sortedArray |-> sortedArray,
                  executionTime |-> t, algorithmType |-> name,
                  totalComparisons |-> Len(steps) - 1]
  /\ pc' = "done"
  /\ UNCHANGED <<heap, callVars, locals, error>>

\* return { steps, sortedArray, executionTime, algorithmType, totalComparisons }
Return(name) ==
  /\ \E t \in 0..MaxElapsed :
       result' = [steps |-> steps, sortedArray |-> sortedArray,
                  executionTime |-> t, algorithmType |-> name,
                  totalComparisons |-> comparisonCount]
  /\ pc' = "done"
  /\ UNCHANGED <<heap, callVars, locals, error>>

\* sortedArray.length
Length == Len(heap[sortedArray])

\* a push that records the working array itself instead of a copy of it
PushAlias(a, x, y, count) ==
  /\ heap' = [heap EXCEPT ![sortedArray] = a]
  /\ steps' = Append(steps, Step(sortedArray, <<x, y>>, count))

\* steps.push({ array: [...sortedArray], swapIndices: [x, y], comparisonCount })
\* after the working array became a and the counter became count
Push(a, x, y, count) ==
  /\ heap' = Append([heap EXCEPT ![sortedArray] = a], a)
  /\ steps' = Append(steps, Step(NewRef(heap), <<x, y>>, count))

\* ------------------------------------------------------------ bubbleSort
BubbleSortEntry ==
  /\ pc = "bubble"
  /\ Prologue
  /\ i' = 0
  /\ pc' = "bubble_for_i"
  /\ UNCHANGED <<callVars, j, swapped, minIndex, key, pivot, low, high, stack,
                 result, error>>

\* an outer loop that restarts the comparison counter with every pass
BubbleForIResetCount ==
  /\ pc = "bubble_for_i"
  /\ IF i < Len(heap[sortedArray]) - 1
       THEN /\ swapped' = FALSE
            /\ j' = 0
            /\ comparisonCount' = 0
            /\ pc' = "bubble_for_j"
       ELSE /\ pc' = "bubble_return"
            /\ UNCHANGED <<swapped, j, comparisonCount>>
  /\ UNCHANGED <<heap, callVars, steps, sortedArray, i,
                 minIndex, key, pivot, low, high, stack, result, error>>

\* for (let i = 0; i < sortedArray.length - 1; i++) { let swapped = false;
BubbleForI ==
  /\ pc = "bubble_for_i"
  /\ IF i < Length - 1
       THEN /\ swapped' = FALSE
            /\ j' = 0
            /\ pc' = "bubble_for_j"
       ELSE /\ pc' = "bubble_return"
            /\ UNCHANGED <<swapped, j>>
  /\ UNCHANGED <<heap, callVars, steps, sortedArray, comparisonCount, i,
                 minIndex, key, pivot, low, high, stack, result, error>>

\* one iteration of the inner loop
BubbleForJ ==
  /\ pc = "bubble_for_j"
  /\ j < Length - 1 - i
  /\ comparisonCount' = comparisonCount + 1
  /\ IF At(heap[sortedArray], j) > At(heap[sortedArray], j + 1)
       THEN /\ Push(Swap(heap[sortedArray], j, j + 1), j, j + 1, comparisonCount + 1)
            /\ swapped' = TRUE
       ELSE UNCHANGED <<heap, steps, swapped>>
  /\ j' = j + 1
  /\ UNCHANGED <<callVars, pc, sortedArray, i, minIndex, key, pivot, low, high,
                 stack, result, error>>

\* an early exit taken after a pass WITH a swap
BubbleEndPassInverted ==
  /\ pc = "bubble_for_j"
  /\ ~(j < Len(heap[sortedArray]) - 1 - i)
  /\ IF swapped
       THEN pc' = "bubble_return" /\ UNCHANGED i
       ELSE pc' = "bubble_for_i" /\ i' = i + 1
  /\ UNCHANGED <<heap, callVars, steps, sortedArray, comparisonCount, j, swapped,
                 minIndex, key, pivot, low, high, stack, result, error>>

\* the inner loop is over: if (!swapped) break; else i++
BubbleEndPass ==
  /\ pc = "bubble_for_j"
  /\ ~(j < Length - 1 - i)
  /\ IF ~swapped
       THEN pc' = "bubble_return" /\ UNCHANGED i
       ELSE pc' = "bubble_for_i" /\ i' = i + 1
  /\ UNCHANGED <<heap, callVars, steps, sortedArray, comparisonCount, j, swapped,
                 minIndex, key, pivot, low, high, stack, result, error>>

BubbleReturn ==
  /\ pc = "bubble_return"
  /\ Return("bubble")

\* ------------------------------------------------------------- quickSort
\* the opening, then quickSortHelper(sortedArray, 0, sortedArray.length - 1)
QuickSortEntry ==
  /\ pc = "quick"
  /\ Prologue
  /\ stack' = <<[low |-> 0, high |-> Len(heap[array]) - 1]>>
  /\ pc' = "quick_helper"
  /\ UNCHANGED <<callVars, i, j, swapped, minIndex, key, pivot, low, high,
                 result, error>>

\* the next pending call quickSortHelper(array, low, high): if (low < high),
\* partition starts with pivot = array[high], i = low - 1, j = low
QuickSortHelper ==
  /\ pc = "quick_helper"
  /\ stack # <<>>
  /\ LET f == Head(stack) IN
       IF f.low < f.high
         THEN /\ low' = f.low
              /\ high' = f.high
              /\ pivot' = At(heap[sortedArray], f.high)
              /\ i' = f.low - 1
              /\ j' = f.low
              /\ pc' = "partition_for_j"
         ELSE UNCHANGED <<low, high, pivot, i, j, pc>>
  /\ stack' = Tail(stack)
  /\ UNCHANGED <<heap, callVars, steps, sortedArray, comparisonCount, swapped,
                 minIndex, key, result, error>>

\* a partition loop that records the index pair before i is incremented
PartitionForJStaleIndex ==
  /\ pc = "partition_for_j"
  /\ j < high
  /\ comparisonCount' = comparisonCount + 1
  /\ IF At(heap[sortedArray], j) < pivot
       THEN /\ i' = i + 1
            /\ IF i + 1 # j
                 THEN Push(Swap(heap[sortedArray], i + 1, j), i, j,
                           comparisonCount + 1)
                 ELSE UNCHANGED <<heap, steps>>
       ELSE UNCHANGED <<i, heap, steps>>
  /\ j' = j + 1
  /\ UNCHANGED <<callVars, pc, sortedArray, swapped, minIndex, key, pivot, low,
                 high, stack, result, error>>

\* one iteration of partition's loop
PartitionForJ ==
  /\ pc = "partition_for_j"
  /\ j < high
  /\ comparisonCount' = comparisonCount + 1
  /\ IF At(heap[sortedArray], j) < pivot
       THEN /\ i' = i + 1
            /\ IF i + 1 # j
                 THEN Push(Swap(heap[sortedArray], i + 1, j), i + 1, j,
                           comparisonCount + 1)
                 ELSE UNCHANGED <<heap, steps>>
       ELSE UNCHANGED <<i, heap, steps>>
  /\ j' = j + 1
  /\ UNCHANGED <<callVars, pc, sortedArray, swapped, minIndex, key, pivot, low,
                 high, stack, result, error>>

\* a helper that calls itself on the right part first
PartitionEndRightFirst ==
  /\ pc = "partition_for_j"
  /\ ~(j < high)
  /\ IF i + 1 # high
       THEN Push(Swap(heap[sortedArray], i + 1, high), i + 1, high, comparisonCount)
       ELSE UNCHANGED <<heap, steps>>
  /\ stack' = <<[low |-> (i + 1) + 1, high |-> high],
                [low |-> low, high |-> (i + 1) - 1]>> \o stack
  /\ pc' = "quick_helper"
  /\ UNCHANGED <<callVars, sortedArray, comparisonCount, i, j, swapped, minIndex,
                 key, pivot, low, high, result, error>>

\* partition's loop is over: the pivot is placed, partition returns i + 1 and
\* the helper calls itself on the left part, then on the right part
PartitionEnd ==
  /\ pc = "partition_for_j"
  /\ ~(j < high)
  /\ IF i + 1 # high
       THEN Push(Swap(heap[sortedArray], i + 1, high), i + 1, high, comparisonCount)
       ELSE UNCHANGED <<heap, steps>>
  /\ stack' = <<[low |-> low, high |-> (i + 1) - 1],
                [low |-> (i + 1) + 1, high |-> high]>> \o stack
  /\ pc' = "quick_helper"
  /\ UNCHANGED <<callVars, sortedArray, comparisonCount, i, j, swapped, minIndex,
                 key, pivot, low, high, result, error>>

\* the outermost quickSortHelper call returned
QuickReturn ==
  /\ pc = "quick_helper"
  /\ stack = <<>>
  /\ Return("quick")

\* ---------------------------------------------------------- selectionSort
SelectionSortEntry ==
  /\ pc = "selection"
  /\ Prologue
  /\ i' = 0
  /\ pc' = "selection_for_i"
  /\ UNCHANGED <<callVars, j, swapped, minIndex, key, pivot, low, high, stack,
                 result, error>>

\* for (let i = 0; i < sortedArray.length - 1; i++) { let minIndex = i;
SelectionForI ==
  /\ pc = "selection_for_i"
  /\ IF i < Length - 1
       THEN /\ minIndex' = i
            /\ j' = i + 1
            /\ pc' = "selection_for_j"
       ELSE /\ pc' = "selection_return"
            /\ UNCHANGED <<minIndex, j>>
  /\ UNCHANGED <<heap, callVars, steps, sortedArray, comparisonCount, i, swapped,
                 key, pivot, low, high, stack, result, error>>

\* one iteration of the scan of the unsorted suffix
SelectionForJ ==
  /\ pc = "selection_for_j"
  /\ j < Length
  /\ comparisonCount' = comparisonCount + 1
  /\ minIndex' = IF At(heap[sortedArray], j) < At(heap[sortedArray], minIndex)
                   THEN j ELSE minIndex
  /\ j' = j + 1
  /\ UNCHANGED <<heap, callVars, pc, steps, sortedArray, i, swapped, key, pivot,
                 low, high, stack, result, error>>

\* a swap recorded without the test minIndex !== i
SelectionSwapUnguarded ==
  /\ pc = "selection_for_j"
  /\ ~(j < Len(heap[sortedArray]))
  /\ Push(Swap(heap[sortedArray], i, minIndex), i, minIndex, comparisonCount)
  /\ i' = i + 1
  /\ pc' = "selection_for_i"
  /\ UNCHANGED <<callVars, sortedArray, comparisonCount, j, swapped, minIndex,
                 key, pivot, low, high, stack, result, error>>

\* the scan is over: if (minIndex !== i) swap and record; i++
SelectionSwap ==
  /\ pc = "selection_for_j"
  /\ ~(j < Length)
  /\ IF minIndex # i
       THEN Push(Swap(heap[sortedArray], i, minIndex), i, minIndex, comparisonCount)
       ELSE UNCHANGED <<heap, steps>>
  /\ i' = i + 1
  /\ pc' = "selection_for_i"
  /\ UNCHANGED <<callVars, sortedArray, comparisonCount, j, swapped, minIndex,
                 key, pivot, low, high, stack, result, error>>

SelectionReturn ==
  /\ pc = "selection_return"
  /\ Return("selection")

\* ---------------------------------------------------------- insertionSort
InsertionSortEntry ==
  /\ pc = "insertion"
  /\ Prologue
  /\ i' = 1
  /\ pc' = "insertion_for_i"
  /\ UNCHANGED <<callVars, j, swapped, minIndex, key, pivot, low, high, stack,
                 result, error>>

\* for (let i = 1; i < sortedArray.length; i++) { key = sortedArray[i]; j = i - 1;
InsertionForI ==
  /\ pc = "insertion_for_i"
  /\ IF i < Length
       THEN /\ key' = At(heap[sortedArray], i)
            /\ j' = i - 1
            /\ pc' = "insertion_while"
       ELSE /\ pc' = "insertion_return"
            /\ UNCHANGED <<key, j>>
  /\ UNCHANGED <<heap, callVars, steps, sortedArray, comparisonCount, i, swapped,
                 minIndex, pivot, low, high, stack, result, error>>

\* a shift loop whose else branch does not break
InsertionWhileNoBreak ==
  /\ pc = "insertion_while"
  /\ j >= 0
  /\ comparisonCount' = comparisonCount + 1
  /\ IF At(heap[sortedArray], j) > key
       THEN /\ Push(Put(heap[sortedArray], j + 1, At(heap[sortedArray], j)),
                    j, j + 1, comparisonCount + 1)
            /\ j' = j - 1
            /\ UNCHANGED pc
       ELSE UNCHANGED <<pc, heap, steps, j>>
  /\ UNCHANGED <<callVars, sortedArray, i, swapped, minIndex, key, pivot, low,
                 high, stack, result, error>>

\* one iteration of while (j >= 0): a shift with its step, or break
InsertionWhile ==
  /\ pc = "insertion_while"
  /\ j >= 0
  /\ comparisonCount' = comparisonCount + 1
  /\ IF At(heap[sortedArray], j) > key
       THEN /\ Push(Put(heap[sortedArray], j + 1, At(heap[sortedArray], j)),
                    j, j + 1, comparisonCount + 1)
            /\ j' = j - 1
            /\ UNCHANGED pc
       ELSE /\ pc' = "insertion_place"
            /\ UNCHANGED <<heap, steps, j>>
  /\ UNCHANGED <<callVars, sortedArray, i, swapped, minIndex, key, pivot, low,
                 high, stack, result, error>>

\* the while condition j >= 0 is false
InsertionWhileExit ==
  /\ pc = "insertion_while"
  /\ ~(j >= 0)
  /\ pc' = "insertion_place"
  /\ UNCHANGED <<heap, callVars, locals, result, error>>

\* a placement of the key that records no step
InsertionPlaceNoStep ==
  /\ pc = "insertion_place"
  /\ heap' = [heap EXCEPT ![sortedArray] = Put(heap[sortedArray], j + 1, key)]
  /\ UNCHANGED steps
  /\ i' = i + 1
  /\ pc' = "insertion_for_i"
  /\ UNCHANGED <<callVars, sortedArray, comparisonCount, j, swapped, minIndex,
                 key, pivot, low, high, stack, result, error>>

\* sortedArray[j + 1] = key; if (j + 1 !== i) record the placement; i++
InsertionPlace ==
  /\ pc = "insertion_place"
  /\ IF j + 1 # i
       THEN Push(Put(heap[sortedArray], j + 1, key), j + 1, i, comparisonCount)
       ELSE /\ heap' = [heap EXCEPT ![sortedArray] = Put(heap[sortedArray], j + 1, key)]
            /\ UNCHANGED steps
  /\ i' = i + 1
  /\ pc' = "insertion_for_i"
  /\ UNCHANGED <<callVars, sortedArray, comparisonCount, j, swapped, minIndex,
                 key, pivot, low, high, stack, result, error>>

InsertionReturn ==
  /\ pc = "insertion_return"
  /\ Return("insertion")

Next ==
  \/ Sort
  \/ BubbleSortEntry
  \/ BubbleForI
  \/ BubbleForJ
  \/ BubbleEndPass
  \/ BubbleReturn
  \/ QuickSortEntry
  \/ QuickSortHelper
  \/ PartitionForJ
  \/ PartitionEnd
  \/ QuickReturn
  \/ SelectionSortEntry
  \/ SelectionForI
  \/ SelectionForJ
  \/ SelectionSwap
  \/ SelectionReturn
  \/ InsertionSortEntry
  \/ InsertionForI
  \/ InsertionWhile
  \/ InsertionWhileExit
  \/ InsertionPlace
  \/ InsertionReturn

Spec == Init /\ [][Next]_vars

\* ------------------------------------------------------ two invocations
\* A first invocation runs alone; then the caller invokes sort again on the
\* same array object (invocation A) while another invocation B is under way.
\* Each invocation has its own parameters and locals; the heap is shared.

\* an array a second caller may pass
OtherInput == <<3, 1, 2>>

\* another spelling of the identifier s
CaseVariant(s) == CASE s = "QUICK" -> "quick"
                    [] s = "quick" -> "QUICK"
                    [] s = "HEAP" -> "heap"
                    [] s = "heap" -> "HEAP"
                    [] OTHER -> s

PairInputs == SeqsUpTo(1..PairMaxVal, PairMaxLen)

\* the calls of the second caller: on the same array object with the same
\* identifier or another spelling of it, on an equal array of its own, or on
\* another array with another algorithm
OtherCalls ==
  {[whose |-> "same", algorithm |-> algorithm],
   [whose |-> "same", algorithm |-> CaseVariant(algorithm)],
   [whose |-> "equal", algorithm |-> algorithm],
   [whose |-> "other", algorithm |-> "insertion"]}

PairInit ==
  /\ \/ \E a \in PairInputs : heap = <<a>> /\ array = 1 /\ callerInput = a
     \/ heap = <<>> /\ array = NonArray /\ callerInput = <<>>
  /\ env \in {e \in EnvSettings : e.set => e.num > 0}
  /\ algorithm \in Algorithms
  /\ pc = "sort"
  /\ steps = <<>> /\ sortedArray = 0 /\ comparisonCount = 0
  /\ i = 0 /\ j = 0 /\ swapped = FALSE /\ minIndex = 0 /\ key = 0
  /\ pivot = 0 /\ low = 0 /\ high = 0 /\ stack = <<>>
  /\ result = NoResult
  /\ error = NoError
  /\ PairIdle
  /\ WebIdle
  /\ RateIdle
  /\ ExtraIdle

\* the variables of the running invocation become those of frame f
Load(f) ==
  /\ self' = f.id
  /\ array' = f.array
  /\ algorithm' = f.algorithm
  /\ callerInput' = f.callerInput
  /\ pc' = f.pc
  /\ steps' = f.steps
  /\ sortedArray' = f.sortedArray
  /\ comparisonCount' = f.comparisonCount
  /\ i' = f.i /\ j' = f.j /\ swapped' = f.swapped /\ minIndex' = f.minIndex
  /\ key' = f.key /\ pivot' = f.pivot /\ low' = f.low /\ high' = f.high
  /\ stack' = f.stack
  /\ result' = f.result
  /\ error' = f.error

\* the outcome of the finished invocation f, its arrays read from heap h
Outcome(f, h) ==
  [ended |-> f.pc,
   trace |-> [k \in 1..Len(f.result.steps) |->
                [array |-> h[f.result.steps[k].array],
                 swapIndices |-> f.result.steps[k].swapIndices,
                 comparisonCount |-> f.result.steps[k].comparisonCount]],
   sortedArray |-> IF f.pc = "done" THEN h[f.result.sortedArray] ELSE <<>>,
   totalComparisons |-> f.result.totalComparisons,
   algorithmType |-> f.result.algorithmType,
   error |-> f.error]

\* the first invocation has ended: its caller keeps what it returned and
\* calls sort again with an equal array and the same identifier (invocation
\* A), while a second caller has called sort (invocation B) on A's array
\* object, on an equal array of its own, or on another array
StartPair ==
  /\ self = "R"
  /\ pc \in {"done", "failed"}
  /\ alone' = Outcome(Frame, heap)
  /\ LET heapA == IF array = NonArray THEN heap ELSE Append(heap, callerInput)
         refA == IF array = NonArray THEN NonArray ELSE NewRef(heap)
     IN
       /\ \E call \in OtherCalls :
            \/ /\ call.whose = "same"
               /\ heap' = heapA
               /\ parked' = NewFrame("B", refA, call.algorithm, callerInput)
            \/ /\ call.whose = "equal"
               /\ heap' = IF array = NonArray THEN heapA
                                              ELSE Append(heapA, callerInput)
               /\ parked' = NewFrame("B",
                                     IF array = NonArray THEN NonArray
                                                         ELSE NewRef(heapA),
                                     call.algorithm, callerInput)
            \/ /\ call.whose = "other"
               /\ heap' = Append(heapA, OtherInput)
               /\ parked' = NewFrame("B", NewRef(heapA), call.algorithm, OtherInput)
       /\ Load(NewFrame("A", refA, algorithm, callerInput))
  /\ UNCHANGED <<env, webVars, rateVars, extraVars>>

\* a switch between invocations that share one comparison counter
SwitchSharedCounter ==
  /\ self \in {"A", "B"}
  /\ parked.pc \notin {"none", "done", "failed"}
  /\ parked' = Frame
  /\ Load([parked EXCEPT !.comparisonCount = comparisonCount])
  /\ UNCHANGED <<heap, env, alone, webVars, rateVars, extraVars>>

\* the running invocation is suspended and the other one goes on
Switch ==
  /\ self \in {"A", "B"}
  /\ parked.pc \notin {"none", "done", "failed"}
  /\ parked' = Frame
  /\ Load(parked)
  /\ UNCHANGED <<heap, env, alone, webVars, rateVars, extraVars>>

PairNext ==
  \/ Sort
  \/ BubbleSortEntry
  \/ BubbleForI
  \/ BubbleForJ
  \/ BubbleEndPass
  \/ BubbleReturn
  \/ QuickSortEntry
  \/ QuickSortHelper
  \/ PartitionForJ
  \/ PartitionEnd
  \/ QuickReturn
  \/ SelectionSortEntry
  \/ SelectionForI
  \/ SelectionForJ
  \/ SelectionSwap
  \/ SelectionReturn
  \/ InsertionSortEntry
  \/ InsertionForI
  \/ InsertionWhile
  \/ InsertionWhileExit
  \/ InsertionPlace
  \/ InsertionReturn
  \/ StartPair
  \/ Switch

PairSpec == PairInit /\ [][PairNext]_vars

\* ------------------------------------------------------- the sort routes
\* One request travels through its route: POST /api/sort (validate, handler,
\* store, response) or GET /api/sort/:sessionId/compare (validate, lookup,
\* one sort call per listed algorithm, response).

\* `|| -10000` and `|| 10000` in the element limits of schemas.sortArray
DefaultMinArrayValue == -10000
DefaultMaxArrayValue == 10000

PostSort == "POST /api/sort"
GetCompare == "GET /api/sort/:sessionId/compare"

\* everything of sort calls that a step of a route outside them leaves alone
sortVars == <<heap, env, array, algorithm, callerInput, pairVars, pc, locals,
              result, error>>

\* process.env.MIN_ARRAY_VALUE and MAX_ARRAY_VALUE: unset, or strings of
\* digits with an optional sign
ValueEnvSettings ==
  {[min |-> Unset, max |-> Unset],
   [min |-> [set |-> TRUE, num |-> 0], max |-> [set |-> TRUE, num |-> MaxVal - 1]],
   [min |-> [set |-> TRUE, num |-> 1], max |-> [set |-> TRUE, num |-> 0]]}

\* the arrays a client posts
WebNumbers == SeqsUpTo((0 - 1)..MaxVal, MaxLen)

\* the values of the key `algorithm` of a posted body
BodyAlgorithms == {Absent, "bubble", "quick", "QUICK", "heap"}

\* the items of a query ?algorithms=a,b : identifiers as the client typed them
Tokens == {"bubble", " QUICK", "selection", "insertion", "heap"}

\* req.query.algorithms by its items between commas; split(',') never gives
\* an empty list, so <<>> stands for a query without the key
AlgorithmQueries == SeqsUpTo(Tokens, MaxList)

SessionIds == {"s1", "s2"}

\* a row of table sessions holding the array a
StoredSession(id, a) == [sessionId |-> id, originalArray |-> a, sortedArray |-> a,
                         totalSteps |-> 0, algorithmType |-> "bubble",
                         executionTime |-> 0]

\* parseInt(process.env.MIN_ARRAY_VALUE) || -10000
MinArrayValue(v) == IF (~v.min.set) \/ v.min.num = 0 THEN DefaultMinArrayValue
                                                      ELSE v.min.num

\* parseInt(process.env.MAX_ARRAY_VALUE) || 10000
MaxArrayValue(v) == IF (~v.max.set) \/ v.max.num = 0 THEN DefaultMaxArrayValue
                                                      ELSE v.max.num

\* schemas.sortArray.validate(body) reports an error
SortArrayError(body, e, v) ==
  \/ Len(body.numbers) < 1
  \/ Len(body.numbers) > MaxArraySize(e)
  \/ \E k \in 1..Len(body.numbers) :
       \/ body.numbers[k] < MinArrayValue(v)
       \/ body.numbers[k] > MaxArrayValue(v)

\* the value Joi returns with stripUnknown: only the keys of the schema
StripUnknown(body) == [body EXCEPT !.algorithm = Absent]

\* Joi.string().uuid()
IsUuid(id) == id \in SessionIds

\* a.trim().toLowerCase() on the items of Tokens
TrimToLowerCase(a) == IF a = " QUICK" THEN "quick" ELSE ToLowerCase(a)

\* the default of the query: 'bubble,quick,selection,insertion'.split(',')
DefaultAlgorithms == <<"bubble", "quick", "selection", "insertion">>

\* the validator isValidArray of Session.originalArray throws:
\* `value.length > parseInt(process.env.MAX_ARRAY_SIZE) || 1000` is
\* `(value.length > parseInt(...)) || 1000`
IsValidArrayThrows(value, e) ==
  \/ Len(value) = 0
  \/ LET orValue == IF e.set /\ Len(value) > e.num THEN 1 ELSE DefaultMaxArraySize
     IN orValue # 0

\* Session.create(row) is rejected by the validators of the model
SessionInvalid(row, e) ==
  \/ IsValidArrayThrows(row.originalArray, e)
  \/ Len(row.sortedArray) = 0
  \/ row.totalSteps < 0
  \/ row.algorithmType \notin {"bubble", "quick", "merge", "selection", "insertion"}
  \/ Len(row.originalArray) # Len(row.sortedArray)

\* getAlgorithmComplexity(algorithm): complexities[algorithm.toLowerCase()] || null
GetAlgorithmComplexity(alg) ==
  CASE ToLowerCase(alg) = "bubble" ->
         [best |-> "O(n)", average |-> "O(n^2)", worst |-> "O(n^2)", space |-> "O(1)"]
    [] ToLowerCase(alg) = "quick" ->
         [best |-> "O(n log n)", average |-> "O(n log n)", worst |-> "O(n^2)",
          space |-> "O(log n)"]
    [] ToLowerCase(alg) = "selection" ->
         [best |-> "O(n^2)", average |-> "O(n^2)", worst |-> "O(n^2)", space |-> "O(1)"]
    [] ToLowerCase(alg) = "insertion" ->
         [best |-> "O(n)", average |-> "O(n^2)", worst |-> "O(n^2)", space |-> "O(1)"]
    [] OTHER -> Null

\* res.status(code).json({ error, ... }); the messages are rendered in English
ErrorResponse(code, msg) == [NoRes EXCEPT !.status = code, !.error = msg]

\* no sort call is under way
NoCall == [NewFrame("R", NonArray, "", <<>>) EXCEPT !.pc = "idle"]

WebInit ==
  /\ env \in EnvSettings
  /\ \/ \E numbers \in WebNumbers, alg \in BodyAlgorithms :
          /\ req = [NoReq EXCEPT !.route = PostSort, !.numbers = numbers,
                                 !.algorithm = alg]
          /\ heap = <<numbers>>
          /\ valueEnv \in ValueEnvSettings
          /\ sessions = <<>>
     \/ \E id \in SessionIds \cup {"malformed"}, q \in AlgorithmQueries :
          /\ req = [NoReq EXCEPT !.route = GetCompare, !.sessionId = id,
                                 !.algorithms = q]
          /\ heap = <<>>
          /\ valueEnv = [min |-> Unset, max |-> Unset]
          /\ \/ sessions = <<>>
             \/ \E a \in PairInputs \ {<<>>} : sessions = <<StoredSession("s1", a)>>
  /\ sent = req
  /\ stage = "validate"
  /\ res = NoRes
  /\ stepRows = <<>> /\ perfRows = <<>>
  /\ original = 0 /\ algorithmList = <<>> /\ comparisons = EmptyMap
  /\ calls = 0
  /\ array = NoCall.array /\ algorithm = NoCall.algorithm
  /\ callerInput = NoCall.callerInput /\ pc = NoCall.pc
  /\ steps = <<>> /\ sortedArray = 0 /\ comparisonCount = 0
  /\ i = 0 /\ j = 0 /\ swapped = FALSE /\ minIndex = 0 /\ key = 0
  /\ pivot = 0 /\ low = 0 /\ high = 0 /\ stack = <<>>
  /\ result = NoResult
  /\ error = NoError
  /\ PairIdle
  /\ RateIdle
  /\ ExtraIdle

\* validate(schemas.sortArray): a 400 response, or req.body = value and next()
PostValidate ==
  /\ req.route = PostSort
  /\ stage = "validate"
  /\ IF SortArrayError(req, env, valueEnv)
       THEN /\ res' = ErrorResponse(400, "validation error")
            /\ stage' = "responded"
            /\ UNCHANGED req
       ELSE /\ req' = StripUnknown(req)
            /\ stage' = "handler"
            /\ UNCHANGED res
  /\ UNCHANGED <<rateVars, extraVars, valueEnv, sent, sessions, stepRows, perfRows, original,
                 algorithmList, comparisons, calls, sortVars>>

\* the handler up to its call: const { numbers, algorithm = 'bubble' } =
\* req.body; SortingAlgorithms.sort(numbers, algorithm)
PostHandler ==
  /\ req.route = PostSort
  /\ stage = "handler"
  /\ Load(NewFrame("R", 1,
                   IF req.algorithm = Absent THEN "bubble" ELSE req.algorithm,
                   heap[1]))
  /\ calls' = calls + 1
  /\ stage' = "sorting"
  /\ UNCHANGED <<rateVars, extraVars, heap, env, parked, alone, valueEnv, req, sent, res, sessions,
                 stepRows, perfRows, original, algorithmList, comparisons>>

\* the handler after the call: an error of sort reaches errorHandler without a
\* status code (500); Session.create rejected by a validator is answered 400
\* by handleDatabaseError; otherwise the session, its steps and the
\* performance row are stored and the response is 201
PostFinish ==
  /\ req.route = PostSort
  /\ stage = "sorting"
  /\ pc \in {"done", "failed"}
  /\ IF pc = "failed"
       THEN /\ res' = ErrorResponse(500, "internal server error")
            /\ UNCHANGED <<sessions, stepRows, perfRows>>
       ELSE \E sessionId \in SessionIds :
              LET row == [sessionId |-> sessionId,
                          originalArray |-> heap[1],
                          sortedArray |-> heap[result.sortedArray],
                          totalSteps |-> Len(result.steps) - 1,
                          algorithmType |-> result.algorithmType,
                          executionTime |-> result.executionTime]
              IN IF SessionInvalid(row, env)
                   THEN /\ res' = ErrorResponse(400, "validation error")
                        /\ UNCHANGED <<sessions, stepRows, perfRows>>
                   ELSE /\ sessions' = Append(sessions, row)
                        /\ stepRows' = stepRows \o
                             [k \in 1..Len(result.steps) |->
                                [sessionId |-> sessionId, stepNumber |-> k - 1,
                                 arrayState |-> heap[result.steps[k].array],
                                 swapIndices |-> result.steps[k].swapIndices,
                                 comparisonCount |-> result.steps[k].comparisonCount]]
                        /\ perfRows' = Append(perfRows,
                             [algorithmType |-> result.algorithmType,
                              arraySize |-> Len(heap[1]),
                              executionTime |-> result.executionTime,
                              stepCount |-> Len(result.steps) - 1])
                        /\ res' = [status |-> 201, error |-> "",
                                   algorithm |-> result.algorithmType,
                                   steps |-> Len(result.steps) - 1,
                                   finalArray |-> heap[result.sortedArray],
                                   totalComparisons |-> result.totalComparisons]
  /\ stage' = "responded"
  /\ UNCHANGED <<rateVars, extraVars, valueEnv, req, sent, original, algorithmList, comparisons,
                 calls, sortVars>>

\* validate(schemas.sessionId, 'params')
CompareValidate ==
  /\ req.route = GetCompare
  /\ stage = "validate"
  /\ IF IsUuid(req.sessionId)
       THEN stage' = "handler" /\ UNCHANGED res
       ELSE /\ res' = ErrorResponse(400, "validation error")
            /\ stage' = "responded"
  /\ UNCHANGED <<rateVars, extraVars, valueEnv, req, sent, sessions, stepRows, perfRows, original,
                 algorithmList, comparisons, calls, sortVars>>

\* Session.findOne; 404 when there is none; otherwise the row's originalArray
\* is an array object of the handler, algorithmList is the parsed query and
\* comparisons = {}
CompareFind ==
  /\ req.route = GetCompare
  /\ stage = "handler"
  /\ IF \E n \in 1..Len(sessions) : sessions[n].sessionId = req.sessionId
       THEN LET session == sessions[CHOOSE n \in 1..Len(sessions) :
                                       sessions[n].sessionId = req.sessionId]
                list == IF req.algorithms = <<>> THEN DefaultAlgorithms
                                                   ELSE req.algorithms
            IN /\ heap' = Append(heap, session.originalArray)
               /\ original' = NewRef(heap)
               /\ algorithmList' = [n \in 1..Len(list) |-> TrimToLowerCase(list[n])]
               /\ comparisons' = EmptyMap
               /\ stage' = "loop"
               /\ UNCHANGED res
       ELSE /\ res' = ErrorResponse(404, "session not found")
            /\ stage' = "responded"
            /\ UNCHANGED <<heap, original, algorithmList, comparisons>>
  /\ UNCHANGED <<rateVars, extraVars, valueEnv, req, sent, sessions, stepRows, perfRows, calls,
                 env, array, algorithm, callerInput, pairVars, pc, locals,
                 result, error>>

\* for (const algorithm of algorithmList):
\* SortingAlgorithms.sort(session.originalArray, algorithm)
CompareCall ==
  /\ req.route = GetCompare
  /\ stage = "loop"
  /\ algorithmList # <<>>
  /\ Load(NewFrame("R", original, Head(algorithmList), heap[original]))
  /\ calls' = calls + 1
  /\ stage' = "sorting"
  /\ UNCHANGED <<rateVars, extraVars, heap, env, parked, alone, valueEnv, req, sent, res, sessions,
                 stepRows, perfRows, original, algorithmList, comparisons>>

\* a loop body whose failure ends the loop
CompareCollectAbort ==
  /\ req.route = GetCompare
  /\ stage = "sorting"
  /\ pc \in {"done", "failed"}
  /\ IF pc = "done"
       THEN /\ comparisons' =
                 (algorithm :> [executionTime |-> result.executionTime,
                                steps |-> Len(result.steps) - 1,
                                comparisons |-> result.totalComparisons,
                                complexity |-> GetAlgorithmComplexity(algorithm)])
                 @@ comparisons
            /\ algorithmList' = Tail(algorithmList)
       ELSE /\ comparisons' = (algorithm :> [error |-> error]) @@ comparisons
            /\ algorithmList' = <<>>
  /\ stage' = "loop"
  /\ UNCHANGED <<rateVars, extraVars, valueEnv, req, sent, res, sessions, stepRows, perfRows,
                 original, calls, sortVars>>

\* the rest of the loop body: comparisons[algorithm] = the figures of the
\* result, or { error: error.message } in the catch block
CompareCollect ==
  /\ req.route = GetCompare
  /\ stage = "sorting"
  /\ pc \in {"done", "failed"}
  /\ comparisons' =
       (algorithm :> IF pc = "done"
                       THEN [executionTime |-> result.executionTime,
                             steps |-> Len(result.steps) - 1,
                             comparisons |-> result.totalComparisons,
                             complexity |-> GetAlgorithmComplexity(algorithm)]
                       ELSE [error |-> error])
       @@ comparisons
  /\ algorithmList' = Tail(algorithmList)
  /\ stage' = "loop"
  /\ UNCHANGED <<rateVars, extraVars, valueEnv, req, sent, res, sessions, stepRows, perfRows,
                 original, calls, sortVars>>

\* res.json({ sessionId, originalArray, arraySize, comparisons })
CompareRespond ==
  /\ req.route = GetCompare
  /\ stage = "loop"
  /\ algorithmList = <<>>
  /\ res' = [NoRes EXCEPT !.status = 200, !.finalArray = heap[original]]
  /\ stage' = "responded"
  /\ UNCHANGED <<rateVars, extraVars, valueEnv, req, sent, sessions, stepRows, perfRows, original,
                 algorithmList, comparisons, calls, sortVars>>

WebNext ==
  \/ PostValidate
  \/ PostHandler
  \/ PostFinish
  \/ CompareValidate
  \/ CompareFind
  \/ CompareCall
  \/ CompareCollect
  \/ CompareRespond
  \/ Sort
  \/ BubbleSortEntry
  \/ BubbleForI
  \/ BubbleForJ
  \/ BubbleEndPass
  \/ BubbleReturn
  \/ QuickSortEntry
  \/ QuickSortHelper
  \/ PartitionForJ
  \/ PartitionEnd
  \/ QuickReturn
  \/ SelectionSortEntry
  \/ SelectionForI
  \/ SelectionForJ
  \/ SelectionSwap
  \/ SelectionReturn
  \/ InsertionSortEntry
  \/ InsertionForI
  \/ InsertionWhile
  \/ InsertionWhileExit
  \/ InsertionPlace
  \/ InsertionReturn

WebSpec == WebInit /\ [][WebNext]_vars

\* ----------------------------------------------------------- rate limits
\* The traffic of one client (one IP, one User-Agent) through the limiters:
\* generalLimiter is mounted on the application before every route, sortLimiter
\* on POST /api/sort and readLimiter on the GET routes of /api/sort.  Requests
\* arrive at whole minutes of the clock.

\* generalLimiter: windowMs and max when the environment does not set them
DefaultWindowMs == 60000
DefaultMaxRequests == 10
\* sortLimiter: 2 * 60 * 1000 and 5
SortWindowMs == 120000
SortMax == 5
\* readLimiter: 60 * 1000 and 30
ReadWindowMs == 60000
ReadMax == 30

\* process.env.RATE_LIMIT_MAX_REQUESTS: unset, or above the read limit
RateEnvSettings == {Unset, [set |-> TRUE, num |-> ReadMax + DefaultMaxRequests]}

\* parseInt(process.env.RATE_LIMIT_MAX_REQUESTS) || 10
GeneralMax(e) == IF (~e.set) \/ e.num = 0 THEN DefaultMaxRequests ELSE e.num

\* the store counts a hit: a new window opens when there is none or the old
\* one has ended
Increment(entry, windowMs) ==
  IF entry.hits = 0 \/ entry.resetTime <= now
    THEN [hits |-> 1, resetTime |-> now + windowMs]
    ELSE [entry EXCEPT !.hits = entry.hits + 1]

\* the limiter answers 429 itself instead of calling next()
Limited(entry, max) == entry.hits > max

RateInit ==
  /\ rateEnv \in RateEnvSettings
  /\ now = 0
  /\ generalLimiter = NoHits /\ sortLimiter = NoHits /\ readLimiter = NoHits
  /\ attempts = 0 /\ onlyReads = TRUE /\ lastStatus = 0 /\ readRejected = FALSE
  /\ heap = <<>> /\ env = Unset
  /\ array = NoCall.array /\ algorithm = NoCall.algorithm
  /\ callerInput = NoCall.callerInput /\ pc = NoCall.pc
  /\ steps = <<>> /\ sortedArray = 0 /\ comparisonCount = 0
  /\ i = 0 /\ j = 0 /\ swapped = FALSE /\ minIndex = 0 /\ key = 0
  /\ pivot = 0 /\ low = 0 /\ high = 0 /\ stack = <<>>
  /\ result = NoResult
  /\ error = NoError
  /\ PairIdle
  /\ WebIdle
  /\ ExtraIdle

\* app.use(generalLimiter): counts every request of the client
General == Increment(generalLimiter, DefaultWindowMs)

\* a GET on a route of /api/sort: generalLimiter, then readLimiter
ReadRequest ==
  /\ attempts < MaxRequests
  /\ attempts' = attempts + 1
  /\ generalLimiter' = General
  /\ IF Limited(General, GeneralMax(rateEnv))
       THEN /\ lastStatus' = 429
            /\ readRejected' = TRUE
            /\ UNCHANGED readLimiter
       ELSE LET entry == Increment(readLimiter, ReadWindowMs)
            IN /\ readLimiter' = entry
               /\ lastStatus' = IF Limited(entry, ReadMax) THEN 429 ELSE 200
               /\ readRejected' = (readRejected \/ Limited(entry, ReadMax))
  /\ UNCHANGED <<rateEnv, now, sortLimiter, onlyReads, sortVars, webVars, extraVars>>

\* a POST on /api/sort: generalLimiter, then sortLimiter
SortRequest ==
  /\ attempts < MaxRequests
  /\ attempts' = attempts + 1
  /\ onlyReads' = FALSE
  /\ generalLimiter' = General
  /\ IF Limited(General, GeneralMax(rateEnv))
       THEN /\ lastStatus' = 429
            /\ UNCHANGED sortLimiter
       ELSE LET entry == Increment(sortLimiter, SortWindowMs)
            IN /\ sortLimiter' = entry
               /\ lastStatus' = IF Limited(entry, SortMax) THEN 429 ELSE 200
  /\ UNCHANGED <<rateEnv, now, readLimiter, readRejected, sortVars, webVars, extraVars>>

\* a request on a route without a limiter of its own (/health, /api/info)
OtherRequest ==
  /\ attempts < MaxRequests
  /\ attempts' = attempts + 1
  /\ onlyReads' = FALSE
  /\ generalLimiter' = General
  /\ lastStatus' = IF Limited(General, GeneralMax(rateEnv)) THEN 429 ELSE 200
  /\ UNCHANGED <<rateEnv, now, sortLimiter, readLimiter, readRejected,
                 sortVars, webVars, extraVars>>

\* a minute passes
Minute ==
  /\ now < MaxMinutes * DefaultWindowMs
  /\ now' = now + DefaultWindowMs
  /\ UNCHANGED <<rateEnv, generalLimiter, sortLimiter, readLimiter, attempts,
                 onlyReads, lastStatus, readRejected, sortVars, webVars, extraVars>>

RateNext ==
  \/ ReadRequest
  \/ SortRequest
  \/ OtherRequest
  \/ Minute

RateSpec == RateInit /\ [][RateNext]_vars

\* ------------------------------------------------------ the legacy server
\* The bubbleSort of the legacy server next to SortingAlgorithms.bubbleSort:
\* one caller hands the same array to both, to the new one directly or
\* through SortingAlgorithms.sort.

\* a legacy loop that also swaps equal neighbours
RECURSIVE LegacyLoopsEager(_, _, _, _)
LegacyLoopsEager(a, snapshots, outerI, innerJ) ==
  IF ~(outerI < Len(a) - 1) THEN [steps |-> snapshots, sortedArray |-> a]
  ELSE IF ~(innerJ < Len(a) - 1 - outerI)
    THEN LegacyLoopsEager(a, snapshots, outerI + 1, 0)
  ELSE IF At(a, innerJ) >= At(a, innerJ + 1)
    THEN LegacyLoopsEager(Swap(a, innerJ, innerJ + 1),
                          Append(snapshots, Swap(a, innerJ, innerJ + 1)),
                          outerI, innerJ + 1)
  ELSE LegacyLoopsEager(a, snapshots, outerI, innerJ + 1)

\* the two loops of the legacy bubbleSort from the iteration (outerI, innerJ)
\* on, the working array being a and the recorded snapshots being snapshots:
\* no early exit, a swap and a snapshot when sortedArray[j] > sortedArray[j + 1]
RECURSIVE LegacyLoops(_, _, _, _)
LegacyLoops(a, snapshots, outerI, innerJ) ==
  IF ~(outerI < Len(a) - 1) THEN [steps |-> snapshots, sortedArray |-> a]
  ELSE IF ~(innerJ < Len(a) - 1 - outerI)
    THEN LegacyLoops(a, snapshots, outerI + 1, 0)
  ELSE IF At(a, innerJ) > At(a, innerJ + 1)
    THEN LegacyLoops(Swap(a, innerJ, innerJ + 1),
                     Append(snapshots, Swap(a, innerJ, innerJ + 1)),
                     outerI, innerJ + 1)
  ELSE LegacyLoops(a, snapshots, outerI, innerJ + 1)

\* function bubbleSort(arr): steps = [[...arr]], then the loops
LegacyBubbleSort(arr) == LegacyLoops(arr, <<arr>>, 0, 0)

\* the caller holds an array and calls SortingAlgorithms.sort(array, 'bubble')
\* or SortingAlgorithms.bubbleSort(array)
LegacyInit ==
  /\ \E a \in Inputs : heap = <<a>> /\ array = 1 /\ callerInput = a
  /\ env \in EnvSettings
  /\ algorithm = "bubble"
  /\ pc \in {"sort", "bubble"}
  /\ steps = <<>> /\ sortedArray = 0 /\ comparisonCount = 0
  /\ i = 0 /\ j = 0 /\ swapped = FALSE /\ minIndex = 0 /\ key = 0
  /\ pivot = 0 /\ low = 0 /\ high = 0 /\ stack = <<>>
  /\ result = NoResult
  /\ error = NoError
  /\ PairIdle
  /\ WebIdle
  /\ RateIdle
  /\ ExtraIdle

\* the caller calls the legacy bubbleSort with the same array
CallLegacy ==
  /\ legacy = NoLegacy
  /\ legacy' = LegacyBubbleSort(heap[array])
  /\ UNCHANGED <<sortVars, webVars, rateVars, sessionsRes, errorVars, downVars>>

LegacyNext ==
  \/ Sort
  \/ BubbleSortEntry
  \/ BubbleForI
  \/ BubbleForJ
  \/ BubbleEndPass
  \/ BubbleReturn
  \/ CallLegacy

LegacySpec == LegacyInit /\ [][LegacyNext]_vars

\* ---------------------------------------------------------------- the store
\* The tables while a POST /api/sort is served and DELETE requests on
\* /api/sessions arrive in between.  The sessions of the table are kept in the
\* order of their createdAt.

\* the step rows of a session whose trace held the arrays of snapshots
StepRowsOf(id, snapshots) ==
  [k \in 1..Len(snapshots) |->
     [sessionId |-> id, stepNumber |-> k - 1, arrayState |-> snapshots[k],
      swapIndices |-> Null, comparisonCount |-> 0]]

\* a session row for the bubble sort of a with its trace of snapshots
SessionRowOf(id, a, snapshots) ==
  [StoredSession(id, a) EXCEPT !.sortedArray = snapshots[Len(snapshots)],
                               !.totalSteps = Len(snapshots) - 1]

\* the rows of a table that do not belong to the sessions ids
RECURSIVE Without(_, _)
Without(rows, ids) ==
  IF rows = <<>> THEN <<>>
  ELSE (IF Head(rows).sessionId \in ids THEN <<>> ELSE <<Head(rows)>>)
         \o Without(Tail(rows), ids)

\* ON DELETE CASCADE that removes the step rows of every session
CascadeAll(rows, ids) == IF ids = {} THEN rows ELSE <<>>

\* ON DELETE CASCADE of the foreign key steps.sessionId: the step rows left
\* when the sessions with the identifiers ids are deleted
Cascade(rows, ids) == Without(rows, ids)

\* the table sessions after destroy() of the sessions with the identifiers ids
Destroy(rows, ids) == Without(rows, ids)

\* two sessions are stored with their steps and a POST arrives
StoreInit ==
  /\ env \in EnvSettings
  /\ valueEnv = [min |-> Unset, max |-> Unset]
  /\ \E numbers \in PairInputs :
       /\ req = [NoReq EXCEPT !.route = PostSort, !.numbers = numbers]
       /\ heap = <<numbers>>
  /\ \E a \in PairInputs \ {<<>>} :
       /\ sessions = <<SessionRowOf("s1", a, LegacyBubbleSort(a).steps),
                       SessionRowOf("s2", OtherInput,
                                    LegacyBubbleSort(OtherInput).steps)>>
       /\ stepRows = StepRowsOf("s1", LegacyBubbleSort(a).steps)
                       \o StepRowsOf("s2", LegacyBubbleSort(OtherInput).steps)
  /\ perfRows = <<>>
  /\ sent = req
  /\ stage = "validate"
  /\ res = NoRes
  /\ original = 0 /\ algorithmList = <<>> /\ comparisons = EmptyMap
  /\ calls = 0
  /\ array = NoCall.array /\ algorithm = NoCall.algorithm
  /\ callerInput = NoCall.callerInput /\ pc = NoCall.pc
  /\ steps = <<>> /\ sortedArray = 0 /\ comparisonCount = 0
  /\ i = 0 /\ j = 0 /\ swapped = FALSE /\ minIndex = 0 /\ key = 0
  /\ pivot = 0 /\ low = 0 /\ high = 0 /\ stack = <<>>
  /\ result = NoResult
  /\ error = NoError
  /\ PairIdle
  /\ RateIdle
  /\ ExtraIdle

\* DELETE /api/sessions/:sessionId: 400 for a malformed id, 404 when there is
\* no such session, otherwise session.destroy() and the cascade
DeleteSession ==
  /\ \E id \in SessionIds \cup {"malformed"} :
       IF ~IsUuid(id)
         THEN /\ sessionsRes' = ErrorResponse(400, "validation error")
              /\ UNCHANGED <<sessions, stepRows>>
       ELSE IF \A n \in 1..Len(sessions) : sessions[n].sessionId # id
         THEN /\ sessionsRes' = ErrorResponse(404, "session not found")
              /\ UNCHANGED <<sessions, stepRows>>
       ELSE /\ sessions' = Destroy(sessions, {id})
            /\ stepRows' = Cascade(stepRows, {id})
            /\ sessionsRes' = [NoRes EXCEPT !.status = 200]
  /\ UNCHANGED <<sortVars, rateVars, legacy, errorVars, downVars, valueEnv, req, sent,
                 stage, res, perfRows, original, algorithmList, comparisons,
                 calls>>

\* DELETE /api/sessions/cleanup: with dryRun the sessions older than the
\* cutoff are counted; otherwise Session.cleanupOldSessions destroys them (the
\* oldest m sessions, m given by the cutoff) with the cascade, or fails on
\* sequelize.Op and is answered 500
Cleanup ==
  /\ \E dryRun \in BOOLEAN, m \in 0..Len(sessions) :
       IF dryRun
         THEN /\ sessionsRes' = [NoRes EXCEPT !.status = 200, !.steps = m]
              /\ UNCHANGED <<sessions, stepRows>>
         ELSE \/ /\ sessionsRes' = ErrorResponse(500, "internal server error")
                 /\ UNCHANGED <<sessions, stepRows>>
              \/ LET ids == {sessions[n].sessionId : n \in 1..m}
                 IN /\ sessions' = Destroy(sessions, ids)
                    /\ stepRows' = Cascade(stepRows, ids)
                    /\ sessionsRes' = [NoRes EXCEPT !.status = 200, !.steps = m]
  /\ UNCHANGED <<sortVars, rateVars, legacy, errorVars, downVars, valueEnv, req, sent,
                 stage, res, perfRows, original, algorithmList, comparisons,
                 calls>>

StoreNext ==
  \/ PostValidate
  \/ PostHandler
  \/ Sort
  \/ BubbleSortEntry
  \/ BubbleForI
  \/ BubbleForJ
  \/ BubbleEndPass
  \/ BubbleReturn
  \/ PostFinish
  \/ DeleteSession
  \/ Cleanup

StoreSpec == StoreInit /\ [][StoreNext]_vars

\* ------------------------------------------------------------ errorHandler
\* An error is a record of its name, its statusCode (0 when it has none), its
\* message, isJoi, the messages of its details (Joi) or errors (Sequelize) and
\* whether it has a stack property.  A message is the sequence of the strings
\* it is concatenated from; the messages are rendered in English.

\* new AppError(message, statusCode)
AppError(message, statusCode) ==
  [name |-> "Error", statusCode |-> statusCode, message |-> message,
   isJoi |-> FALSE, details |-> <<>>, stack |-> TRUE]

\* the messages of the plain errors
ErrorMessages ==
  {<<"Input must be an array">>, <<"Array cannot be empty">>,
   <<"Array size exceeds maximum limit">>, <<"Unsupported sorting algorithm">>,
   <<"Cannot read properties of undefined">>}

\* the messages of the items of error.details and error.errors
DetailMessages == {"numbers is required", "must be an integer"}

SequelizeNames ==
  {"SequelizeConnectionError", "SequelizeValidationError",
   "SequelizeUniqueConstraintError", "SequelizeForeignKeyConstraintError",
   "SequelizeDatabaseError", "SequelizeTimeoutError"}

\* the errors that reach errorHandler
Errors ==
  {AppError(m, c) : m \in ErrorMessages, c \in {400, 404, 409, 429, 503}}
  \cup [name : {"Error", "TypeError"}, statusCode : {0},
        message : ErrorMessages, isJoi : {FALSE}, details : {<<>>},
        stack : {TRUE}]
  \cup [name : SequelizeNames \ {"SequelizeValidationError"}, statusCode : {0},
        message : ErrorMessages, isJoi : {FALSE}, details : {<<>>},
        stack : {TRUE}]
  \cup [name : {"SequelizeValidationError"}, statusCode : {0},
        message : ErrorMessages, isJoi : {FALSE},
        details : SeqsUpTo(DetailMessages, MaxList) \ {<<>>}, stack : {TRUE}]
  \cup [name : {"ValidationError"}, statusCode : {0},
        message : ErrorMessages, isJoi : {TRUE},
        details : SeqsUpTo(DetailMessages, MaxList) \ {<<>>}, stack : {TRUE}]
  \cup [name : {"JsonWebTokenError", "TokenExpiredError"}, statusCode : {0},
        message : ErrorMessages, isJoi : {FALSE}, details : {<<>>},
        stack : {TRUE}]

\* messages.join(separator)
RECURSIVE Join(_, _)
Join(messages, separator) ==
  IF Len(messages) <= 1 THEN messages
  ELSE <<Head(messages), separator>> \o Join(Tail(messages), separator)

\* name.startsWith('Sequelize')
StartsWithSequelize(name) == name \in SequelizeNames

\* { ...err } with error.message = err.message: the own enumerable properties
\* and the message; stack is not among them
CopyOwn(e) == [e EXCEPT !.stack = FALSE]

\* handleDatabaseError answering every database error with 500
HandleDatabaseErrorAs500(dbError) == AppError(<<"database error">>, 500)

HandleDatabaseError(dbError) ==
  CASE dbError.name = "SequelizeConnectionError" ->
         AppError(<<"database connection error">>, 503)
    [] dbError.name = "SequelizeValidationError" ->
         AppError(<<"data validation error: ">> \o Join(dbError.details, ", "), 400)
    [] dbError.name = "SequelizeUniqueConstraintError" ->
         AppError(<<"data already exists">>, 409)
    [] dbError.name = "SequelizeForeignKeyConstraintError" ->
         AppError(<<"data integrity violation">>, 400)
    [] OTHER -> AppError(<<"database error">>, 500)

\* the server runs and no error has been passed to next yet
ErrorInit ==
  /\ nodeEnv \in {"development", "production"}
  /\ err = NoErr
  /\ errorStage = "running"
  /\ errorRes = NoErrorRes
  /\ responses = 0
  /\ legacy = NoLegacy /\ sessionsRes = NoRes /\ DownIdle
  /\ heap = <<>> /\ array = NoCall.array /\ algorithm = NoCall.algorithm
  /\ callerInput = NoCall.callerInput /\ pc = NoCall.pc
  /\ env \in EnvSettings
  /\ steps = <<>> /\ sortedArray = 0 /\ comparisonCount = 0
  /\ i = 0 /\ j = 0 /\ swapped = FALSE /\ minIndex = 0 /\ key = 0
  /\ pivot = 0 /\ low = 0 /\ high = 0 /\ stack = <<>>
  /\ result = NoResult
  /\ error = NoError
  /\ PairIdle
  /\ WebIdle
  /\ RateIdle

\* asyncHandler: the rejection of a handler, or an error a middleware throws,
\* is passed to next
AsyncHandler ==
  /\ errorStage = "running"
  /\ err' \in Errors
  /\ errorStage' = "thrown"
  /\ UNCHANGED <<sortVars, webVars, rateVars, legacy, sessionsRes, downVars,
                 nodeEnv, errorRes, responses>>

\* notFound: no route matched
NotFound ==
  /\ errorStage = "running"
  /\ err' = AppError(<<"route not found">>, 404)
  /\ errorStage' = "thrown"
  /\ UNCHANGED <<sortVars, webVars, rateVars, legacy, sessionsRes, downVars,
                 nodeEnv, errorRes, responses>>

\* errorHandler(err, req, res, next)
ErrorHandler ==
  /\ errorStage = "thrown"
  /\ LET copied == CopyOwn(err)
         database == IF StartsWithSequelize(err.name)
                       THEN HandleDatabaseError(err) ELSE copied
         joi == IF err.isJoi
                  THEN AppError(Join(err.details, ". "), 400) ELSE database
         token == IF err.name = "JsonWebTokenError"
                    THEN AppError(<<"invalid token">>, 401) ELSE joi
         expired == IF err.name = "TokenExpiredError"
                      THEN AppError(<<"token expired">>, 401) ELSE token
         final == IF expired.statusCode = 0
                    THEN [expired EXCEPT !.statusCode = 500,
                                         !.message = <<"internal server error">>]
                    ELSE expired
     IN errorRes' = [status |-> final.statusCode, error |-> final.message,
                     stack |-> nodeEnv = "development" /\ final.stack]
  /\ responses' = responses + 1
  /\ errorStage' = "responded"
  /\ UNCHANGED <<sortVars, webVars, rateVars, legacy, sessionsRes, downVars,
                 nodeEnv, err>>

ErrorNext ==
  \/ AsyncHandler
  \/ NotFound
  \/ ErrorHandler

ErrorSpec == ErrorInit /\ [][ErrorNext]_vars

\* ---------------------------------------------------------------- shutdown
\* The server process from startServer() to its exit.  A signal calls the
\* listeners registered for it in the order of their registration, in one turn
\* of the event loop; process.exit ends the process where it is called.

\* process.exit(code)
Exit(n, code) == [n EXCEPT !.process = "exited", !.exitCode = code]

\* gracefulShutdown(signal): sequelize.close() is started, not awaited, and
\* the process exits
GracefulShutdown(n) == Exit([n EXCEPT !.db = "closing"], 0)

\* handleShutdown: server.close(callback) and the timer of the forced shutdown
HandleShutdown(n) == [n EXCEPT !.server = "closing", !.timer = TRUE]

\* the listeners ls called in order while the process runs
RECURSIVE Emit(_, _)
Emit(ls, n) ==
  IF ls = <<>> \/ n.process = "exited" THEN n
  ELSE Emit(Tail(ls), IF Head(ls) = "gracefulShutdown"
                        THEN GracefulShutdown(n) ELSE HandleShutdown(n))

\* startServer() has been called
DownInit ==
  /\ node = [NoNode EXCEPT !.startServer = "testConnection"]
  /\ connections = NoConnections
  /\ legacy = NoLegacy /\ sessionsRes = NoRes /\ ErrorIdle
  /\ heap = <<>> /\ array = NoCall.array /\ algorithm = NoCall.algorithm
  /\ callerInput = NoCall.callerInput /\ pc = NoCall.pc
  /\ env \in EnvSettings
  /\ steps = <<>> /\ sortedArray = 0 /\ comparisonCount = 0
  /\ i = 0 /\ j = 0 /\ swapped = FALSE /\ minIndex = 0 /\ key = 0
  /\ pivot = 0 /\ low = 0 /\ high = 0 /\ stack = <<>>
  /\ result = NoResult
  /\ error = NoError
  /\ PairIdle
  /\ WebIdle
  /\ RateIdle

DownUnchanged ==
  UNCHANGED <<sortVars, webVars, rateVars, legacy, sessionsRes, errorVars>>

\* await testConnection(): the pool connects, or the catch block exits with 1
TestConnection ==
  /\ node.process = "running" /\ node.startServer = "testConnection"
  /\ \E ok \in BOOLEAN :
       node' = IF ok THEN [node EXCEPT !.db = "open", !.startServer = "sync"]
               ELSE Exit([node EXCEPT !.startServer = "failed"], 1)
  /\ UNCHANGED connections
  /\ DownUnchanged

\* await sequelize.sync(...), or the catch block exits with 1
Sync ==
  /\ node.process = "running" /\ node.startServer = "sync"
  /\ \E ok \in BOOLEAN :
       node' = IF ok THEN [node EXCEPT !.startServer = "listen"]
               ELSE Exit([node EXCEPT !.startServer = "failed"], 1)
  /\ UNCHANGED connections
  /\ DownUnchanged

\* app.listen(PORT) and process.on(signal, handleShutdown)
Listen ==
  /\ node.process = "running" /\ node.startServer = "listen"
  /\ node' = [node EXCEPT !.server = "listening", !.startServer = "done",
                          !.listeners = Append(@, "handleShutdown")]
  /\ UNCHANGED connections
  /\ DownUnchanged

\* a client opens a connection, sends a request on it, gets the response,
\* or closes its idle connection
Client ==
  /\ node.process = "running" /\ node.server = "listening"
  /\ \E c \in 1..MaxConnections :
       \E to \in CASE connections[c] = "none" -> {"idle"}
                   [] connections[c] = "idle" -> {"active", "none"}
                   [] OTHER -> {"idle"} :
         connections' = [connections EXCEPT ![c] = to]
  /\ UNCHANGED node
  /\ DownUnchanged

\* SIGTERM or SIGINT is delivered: its listeners are called
Signal ==
  /\ node.process = "running" /\ node.signal = ""
  /\ \E sig \in {"SIGTERM", "SIGINT"} :
       node' = Emit(node.listeners, [node EXCEPT !.signal = sig])
  /\ UNCHANGED connections
  /\ DownUnchanged

DownNext ==
  \/ TestConnection
  \/ Sync
  \/ Listen
  \/ Client
  \/ Signal

DownSpec == DownInit /\ [][DownNext]_vars

\* ------------------------------------------------- vocabulary of the claims
\* the identifiers that name one of the four algorithms, in any letter case
SupportedIds == {"bubble", "quick", "selection", "insertion", "QUICK"}

\* the configured maximum size: MAX_ARRAY_SIZE when it is a positive number
ConfiguredMax == IF env.set /\ env.num > 0 THEN env.num ELSE 1000

\* the caller passed a non-empty array within the size limit
ValidInput == array # NonArray /\ Len(callerInput) >= 1
              /\ Len(callerInput) <= ConfiguredMax

NonDecreasing(a) == \A k \in 1..(Len(a) - 1) : a[k] <= a[k + 1]

Occurrences(a, v) == Cardinality({k \in DOMAIN a : a[k] = v})

SameMultiset(a, b) ==
  /\ Len(a) = Len(b)
  /\ \A v \in {a[k] : k \in DOMAIN a} \cup {b[k] : k \in DOMAIN b} :
       Occurrences(a, v) = Occurrences(b, v)

Returned == pc = "done"
Threw == pc = "failed"
Trace == result.steps
LastStep == Trace[Len(Trace)]
ArrayOf(st) == heap[st.array]
SortedOut == heap[result.sortedArray]

\* C1: for a valid input and one of the four algorithms the call does not
\* throw, and the returned sortedArray is non-decreasing and has the same
\* multiset of values as the input.
C1_SortedPermutation ==
  (ValidInput /\ algorithm \in SupportedIds) =>
    /\ ~Threw
    /\ Returned => (NonDecreasing(SortedOut) /\ SameMultiset(SortedOut, callerInput))

C1_Witness ==
  /\ Returned /\ ValidInput /\ algorithm = "insertion"
  /\ callerInput = <<3, 1, 3, 2>>
  /\ SortedOut = <<1, 2, 3, 3>>

\* C2: the first step of the returned trace holds the original input and the
\* last step holds the returned sortedArray.
C2_TraceEnds ==
  (Returned /\ ValidInput /\ algorithm \in SupportedIds) =>
    /\ Len(Trace) >= 1
    /\ ArrayOf(Trace[1]) = callerInput
    /\ ArrayOf(LastStep) = SortedOut

C2_Witness ==
  /\ Returned /\ ValidInput /\ algorithm = "insertion"
  /\ Len(Trace) > 2
  /\ ArrayOf(Trace[1]) # ArrayOf(LastStep)

\* C3 as stated: totalComparisons equals the comparisonCount of the last step.
C3_TotalEqualsLast ==
  (Returned /\ ValidInput /\ algorithm \in SupportedIds) =>
    result.totalComparisons = LastStep.comparisonCount

\* C3 amended: the last step's comparisonCount never exceeds totalComparisons
\* (comparisons made after the last recorded mutation are counted in the total
\* only), and the two are equal, both 0, when the input is already sorted.
C3_LastAtMostTotal ==
  (Returned /\ ValidInput /\ algorithm \in SupportedIds) =>
    /\ LastStep.comparisonCount <= result.totalComparisons
    /\ NonDecreasing(callerInput) =>
         (result.totalComparisons = 0 /\ LastStep.comparisonCount = 0)

C3_Witness ==
  /\ Returned /\ ValidInput /\ algorithm = "selection"
  /\ Len(Trace) > 1
  /\ LastStep.comparisonCount < result.totalComparisons

\* C4: comparisonCount is 0 in step 0 and never decreases from a step of the
\* returned trace to the next.
C4_CountMonotone ==
  (Returned /\ ValidInput /\ algorithm \in SupportedIds) =>
    /\ Trace[1].comparisonCount = 0
    /\ \A k \in 1..(Len(Trace) - 1) :
         Trace[k].comparisonCount <= Trace[k + 1].comparisonCount

C4_Witness ==
  /\ Returned /\ ValidInput /\ algorithm = "QUICK"
  /\ Len(Trace) > 2
  /\ \E k \in 1..(Len(Trace) - 1) :
       Trace[k].comparisonCount < Trace[k + 1].comparisonCount

\* C5: step 0 has no index pair; every later step has exactly two indices,
\* both within [0, length) and different from each other.
C5_IndexPairs ==
  (Returned /\ ValidInput /\ algorithm \in SupportedIds) =>
    /\ Trace[1].swapIndices = Null
    /\ \A k \in 2..Len(Trace) :
         /\ Len(Trace[k].swapIndices) = 2
         /\ Trace[k].swapIndices[1] \in 0..(Len(callerInput) - 1)
         /\ Trace[k].swapIndices[2] \in 0..(Len(callerInput) - 1)
         /\ Trace[k].swapIndices[1] # Trace[k].swapIndices[2]

C5_Witness ==
  /\ Returned /\ ValidInput /\ algorithm = "selection"
  /\ Len(Trace) > 2
  /\ \E k \in 2..Len(Trace) : Trace[k].swapIndices = <<0, Len(callerInput) - 1>>

\* C6: for a valid input, sorted or not, and an identifier that names none of
\* the four algorithms, the call ends with the unsupported-algorithm error and
\* returns no result and no trace.
C6_UnsupportedRejected ==
  (ValidInput /\ algorithm \notin SupportedIds /\ pc # "sort") =>
    /\ Threw
    /\ error = "Unsupported sorting algorithm"
    /\ result = NoResult

\* C7: an input that is already non-decreasing returns a trace of exactly one
\* step with totalComparisons = 0 under each of the four algorithms, and no
\* executor runs.
C7_FastPath ==
  (ValidInput /\ NonDecreasing(callerInput) /\ algorithm \in SupportedIds) =>
    /\ pc \in {"sort", "done"}
    /\ steps = <<>>
    /\ Returned =>
         /\ Len(Trace) = 1
         /\ result.totalComparisons = 0
         /\ Trace[1].comparisonCount = 0
         /\ ArrayOf(Trace[1]) = callerInput

C7_Witness ==
  /\ Returned /\ ValidInput /\ algorithm = "bubble"
  /\ callerInput = <<2, 2, 2>>
  /\ Len(Trace) = 1

\* C8: a non-array, an empty array and an array longer than the configured
\* maximum are each rejected with an error of their own, with no result and
\* no trace, also when the oversize array is already sorted.
C8_InputRejected ==
  pc # "sort" =>
    /\ array = NonArray =>
         (Threw /\ error = "Input must be an array")
    /\ (array # NonArray /\ Len(callerInput) = 0) =>
         (Threw /\ error = "Array cannot be empty")
    /\ (array # NonArray /\ Len(callerInput) > ConfiguredMax) =>
         (Threw /\ error = "Array size exceeds maximum limit")
    /\ Threw => (result = NoResult /\ steps = <<>> /\ Len(heap) <= 1)

C8_Witness ==
  /\ Threw /\ array # NonArray
  /\ Len(callerInput) > ConfiguredMax
  /\ NonDecreasing(callerInput)
  /\ error = "Array size exceeds maximum limit"

\* C9: the caller's array keeps its elements through the whole call, and
\* neither the returned sortedArray nor any step's array is the caller's
\* array object.
C9_CallerArrayUntouched ==
  array # NonArray =>
    /\ heap[array] = callerInput
    /\ sortedArray # array
    /\ \A k \in 1..Len(steps) : steps[k].array # array
    /\ Returned =>
         /\ result.sortedArray # array
         /\ \A k \in 1..Len(Trace) : Trace[k].array # array

C9_Witness ==
  /\ Returned /\ ValidInput /\ algorithm = "quick"
  /\ SortedOut # callerInput
  /\ heap[array] = callerInput

\* C10 as stated: [5,3,1,4,2] under bubble gives [1,2,3,4,5], 10 comparisons
\* and exactly 4 swap steps, the first with pair (0,1) and array [3,5,1,4,2].
C10_GoldenFourSwaps ==
  (Returned /\ callerInput = GoldenInput /\ algorithm = "bubble") =>
    /\ SortedOut = <<1, 2, 3, 4, 5>>
    /\ result.totalComparisons = 10
    /\ Len(Trace) - 1 = 4
    /\ Trace[2].swapIndices = <<0, 1>>
    /\ ArrayOf(Trace[2]) = <<3, 5, 1, 4, 2>>

\* C10 amended: [5,3,1,4,2] under bubble gives [1,2,3,4,5], 10 comparisons and
\* exactly 7 swap steps, the first with pair (0,1) and array [3,5,1,4,2].
C10_GoldenSevenSwaps ==
  (Returned /\ callerInput = GoldenInput /\ algorithm = "bubble") =>
    /\ SortedOut = <<1, 2, 3, 4, 5>>
    /\ result.totalComparisons = 10
    /\ Len(Trace) - 1 = 7
    /\ Trace[2].swapIndices = <<0, 1>>
    /\ ArrayOf(Trace[2]) = <<3, 5, 1, 4, 2>>

C10_Witness ==
  /\ Returned /\ callerInput = GoldenInput /\ algorithm = "bubble"
  /\ Len(Trace) = 8
  /\ result.algorithmType = "bubble"

\* the same program under the scheduling of a synchronous call: it keeps
\* executing while a statement is left to execute
FairSpec == Spec /\ WF_vars(Next)

\* C13: the trace is append-only: a step once recorded keeps its place, its
\* index pair, its comparisonCount and the content of its array through every
\* later operation of the sort, and the returned trace is the recorded one.
C13_AppendOnly ==
  [][/\ pc # "sort" => Len(steps') >= Len(steps)
     /\ \A k \in 1..Len(steps) :
          /\ k <= Len(steps')
          /\ steps'[k] = steps[k]
          /\ heap'[steps[k].array] = heap[steps[k].array]
     /\ (pc' = "done" /\ pc # "sort") => result'.steps = steps]_vars

C13_Witness ==
  /\ pc = "insertion_while" /\ Len(steps) >= 3
  /\ heap[steps[2].array] # heap[sortedArray]
  /\ heap[steps[2].array] # heap[steps[3].array]

\* the indices an executor is about to use lie inside the working array
IndexSafe ==
  /\ pc = "bubble_for_j" => (i >= 0 /\ j >= 0 /\ j + i <= Length - 1)
  /\ pc = "partition_for_j" =>
       (0 <= low /\ low <= j /\ j <= high /\ high <= Length - 1 /\ low - 1 <= i /\ i < j)
  /\ pc = "selection_for_j" =>
       (0 <= i /\ i <= minIndex /\ minIndex < j /\ j <= Length)
  /\ pc \in {"insertion_while", "insertion_place"} => (-1 <= j /\ j < i /\ i <= Length - 1)

\* C15: for a valid input and one of the four algorithms the call comes to
\* an end and the end is a returned result, never a thrown error; on the way
\* every index used lies inside the array and the number of comparisons
\* stays within length squared.
C15_Terminates ==
  /\ <>(pc \in {"done", "failed"})
  /\ []((ValidInput /\ algorithm \in SupportedIds) => pc # "failed")
  /\ [](pc \notin {"sort", "done", "failed", "bubble", "quick", "selection", "insertion"}
          => (IndexSafe /\ comparisonCount <= Len(callerInput) * Len(callerInput)))

C15_Witness ==
  /\ Returned /\ ValidInput /\ algorithm = "quick"
  /\ Len(callerInput) = MaxLen
  /\ result.totalComparisons >= MaxLen + 1

\* cur is prev with the values at the zero-based positions x and y exchanged
Exchanged(prev, cur, x, y) ==
  /\ Len(cur) = Len(prev)
  /\ x \in 0..(Len(prev) - 1)
  /\ y \in 0..(Len(prev) - 1)
  /\ cur[x + 1] = prev[y + 1]
  /\ cur[y + 1] = prev[x + 1]
  /\ \A k \in DOMAIN prev : k \notin {x + 1, y + 1} => cur[k] = prev[k]

\* cur is prev except that the zero-based position y holds prev's value at x
Shifted(prev, cur, x, y) ==
  /\ Len(cur) = Len(prev)
  /\ x \in 0..(Len(prev) - 1)
  /\ y \in 0..(Len(prev) - 1)
  /\ cur[y + 1] = prev[x + 1]
  /\ \A k \in DOMAIN prev : k # y + 1 => cur[k] = prev[k]

\* C20: in the traces of bubble, selection and quick sort every step after
\* step 0 holds the previous step's array with the values at its two indices
\* exchanged; each shift of insertion sort records a step with pair [j, j+1]
\* whose array is the previous step's array except that j+1 holds the
\* previous value of j.
C20_StepIsItsMutation ==
  /\ []((Returned /\ ValidInput /\ algorithm \in {"bubble", "selection", "quick", "QUICK"}) =>
          \A k \in 2..Len(Trace) :
            Exchanged(ArrayOf(Trace[k - 1]), ArrayOf(Trace[k]),
                      Trace[k].swapIndices[1], Trace[k].swapIndices[2]))
  /\ [][(pc = "insertion_while" /\ Len(steps') > Len(steps)) =>
          /\ Len(steps') = Len(steps) + 1
          /\ steps'[Len(steps')].swapIndices = <<j, j + 1>>
          /\ Shifted(heap[steps[Len(steps)].array],
                     heap'[steps'[Len(steps')].array], j, j + 1)]_vars

C20_Witness ==
  /\ Returned /\ ValidInput /\ algorithm = "insertion"
  /\ callerInput = <<2, 3, 1>>
  /\ Len(Trace) = 4
  /\ ArrayOf(Trace[2]) = <<2, 3, 3>>

\* the two invocations of a two-invocation run
FrameA == IF self = "A" THEN Frame ELSE parked
FrameB == IF self = "B" THEN Frame ELSE parked
BothRunning == self \in {"A", "B"}
Finished(f) == f.pc \in {"done", "failed"}

\* a non-empty array within the size limit
ValidContent(a) == Len(a) >= 1 /\ Len(a) <= ConfiguredMax

\* the identifiers a and b differ in letter case only
SameButCase(a, b) == {a, b} \in {{"quick", "QUICK"}, {"heap", "HEAP"}}

\* C12: two calls on equal valid inputs whose identifiers differ only in
\* letter case return the same trace, sortedArray, totalComparisons and
\* algorithmType (or fail alike).
C12_CaseInsensitive ==
  (/\ BothRunning /\ Finished(FrameA) /\ Finished(FrameB)
   /\ FrameA.array # NonArray /\ ValidContent(FrameA.callerInput)
   /\ FrameB.callerInput = FrameA.callerInput
   /\ SameButCase(FrameA.algorithm, FrameB.algorithm)) =>
    Outcome(FrameA, heap) = Outcome(FrameB, heap)

\* C14: two invocations with equal inputs and the same algorithm, on one array
\* object or on two, return identical traces, sortedArray and
\* totalComparisons.
C14_Deterministic ==
  (/\ BothRunning /\ Finished(FrameA) /\ Finished(FrameB)
   /\ FrameB.callerInput = FrameA.callerInput
   /\ FrameB.algorithm = FrameA.algorithm) =>
    /\ FrameA.pc = FrameB.pc
    /\ Outcome(FrameA, heap).trace = Outcome(FrameB, heap).trace
    /\ Outcome(FrameA, heap).sortedArray = Outcome(FrameB, heap).sortedArray
    /\ FrameA.result.totalComparisons = FrameB.result.totalComparisons

C14_Witness ==
  /\ BothRunning /\ Finished(FrameA) /\ Finished(FrameB)
  /\ FrameA.algorithm = "quick" /\ FrameB.algorithm = "quick"
  /\ FrameA.array = FrameB.array
  /\ FrameA.callerInput = <<2, 1, 1>>
  /\ Len(FrameA.result.steps) = 2 /\ Len(FrameB.result.steps) = 2
  /\ FrameA.result.steps[2].array # FrameB.result.steps[2].array

\* C16: whatever another invocation does in between, on the same array or on
\* another, an invocation ends with the outcome the same call had when it ran
\* alone.
C16_Independent ==
  BothRunning =>
    /\ Finished(FrameA) => Outcome(FrameA, heap) = alone
    /\ (/\ Finished(FrameB)
        /\ FrameB.callerInput = FrameA.callerInput
        /\ FrameB.algorithm = FrameA.algorithm) => Outcome(FrameB, heap) = alone

C16_Witness ==
  /\ self = "A" /\ pc = "done" /\ algorithm = "bubble"
  /\ callerInput = <<2, 2, 1>>
  /\ parked.pc = "insertion_while" /\ parked.callerInput = OtherInput
  /\ Len(parked.steps) = 2
  /\ Len(alone.trace) = 3

\* the configured element limits: MIN_ARRAY_VALUE and MAX_ARRAY_VALUE when
\* they are set, -10000 and 10000 otherwise
ConfiguredMinValue == IF valueEnv.min.set THEN valueEnv.min.num ELSE 0 - 10000
ConfiguredMaxValue == IF valueEnv.max.set THEN valueEnv.max.num ELSE 10000

\* a numbers array the configured limits allow
ValidNumbers(a) ==
  /\ ValidContent(a)
  /\ \A k \in 1..Len(a) : a[k] >= ConfiguredMinValue /\ a[k] <= ConfiguredMaxValue

NothingStored == sessions = <<>> /\ stepRows = <<>> /\ perfRows = <<>>

\* C11: a POST of a valid numbers array with an algorithm field naming one of
\* bubble, quick, selection, insertion is sorted with that algorithm, and the
\* stored session and the 201 response carry it as algorithmType.
C11_AlgorithmHonoured ==
  (/\ sent.route = PostSort
   /\ ValidNumbers(sent.numbers)
   /\ sent.algorithm \in {"bubble", "quick", "selection", "insertion"}) =>
    /\ stage = "sorting" => algorithm = sent.algorithm
    /\ stage = "responded" =>
         /\ res.status = 201
         /\ res.algorithm = sent.algorithm
         /\ \E n \in 1..Len(sessions) :
              /\ sessions[n].algorithmType = sent.algorithm
              /\ sessions[n].originalArray = sent.numbers

\* the algorithms a compare request asks for, as the route names them
RequestedName(t) == IF t \in {" QUICK", "QUICK"} THEN "quick" ELSE t
Requested ==
  IF sent.algorithms = <<>> THEN <<"bubble", "quick", "selection", "insertion">>
  ELSE [n \in 1..Len(sent.algorithms) |-> RequestedName(sent.algorithms[n])]

\* the stored original array of the session a compare request names
StoredOriginal ==
  sessions[CHOOSE n \in 1..Len(sessions) :
             sessions[n].sessionId = sent.sessionId].originalArray

\* C17: compare calls sort once per requested algorithm, each time on the
\* session's original array, which keeps its content between the runs; a
\* failing call leaves an entry that holds only the error message and the loop
\* goes on, so that every requested algorithm has its entry in the response
\* and the entry of a run that returned holds executionTime, steps,
\* comparisons and complexity of that run.
C17_CompareAll ==
  [][sent.route = GetCompare =>
       /\ (stage = "loop" /\ stage' = "sorting") =>
            /\ calls' = calls + 1
            /\ algorithm' = Requested[calls']
            /\ array' = original
            /\ heap[original] = StoredOriginal
       /\ (stage = "sorting" /\ stage' = "loop") =>
            /\ heap[original] = StoredOriginal
            /\ Len(algorithmList') = Len(Requested) - calls
            /\ pc = "failed" =>
                 /\ error # ""
                 /\ comparisons'[algorithm] = [error |-> error]
            /\ pc = "done" =>
                 /\ DOMAIN comparisons'[algorithm] =
                      {"executionTime", "steps", "comparisons", "complexity"}
                 /\ comparisons'[algorithm].executionTime = result.executionTime
                 /\ comparisons'[algorithm].steps = Len(result.steps) - 1
                 /\ comparisons'[algorithm].comparisons = result.totalComparisons
            /\ \A a \in DOMAIN comparisons \ {algorithm} :
                 /\ a \in DOMAIN comparisons'
                 /\ comparisons'[a] = comparisons[a]
       /\ (stage' = "responded" /\ res'.status = 200) =>
            /\ calls' = Len(Requested)
            /\ \A n \in 1..Len(Requested) :
                 /\ Requested[n] \in DOMAIN comparisons'
                 /\ (/\ Requested[n] \in {"bubble", "quick", "selection", "insertion"}
                     /\ ValidContent(StoredOriginal)) =>
                      "steps" \in DOMAIN comparisons'[Requested[n]]
            /\ res'.finalArray = StoredOriginal]_vars

C17_Witness ==
  /\ sent.route = GetCompare /\ stage = "responded" /\ res.status = 200
  /\ sent.algorithms = <<"heap", " QUICK">>
  /\ StoredOriginal = <<2, 1, 1>>
  /\ calls = 2
  /\ comparisons["heap"] = [error |-> "Unsupported sorting algorithm"]
  /\ comparisons["quick"].steps = 1
  /\ comparisons["quick"].comparisons = 3

\* C18: a POST whose numbers array is empty, longer than the configured
\* maximum size, or holds an element outside the configured value limits is
\* answered 400 by the validator: sort is not called and nothing is stored.
C18_InvalidRejected ==
  (/\ sent.route = PostSort
   /\ ~ValidNumbers(sent.numbers)
   /\ stage # "validate") =>
    /\ stage = "responded"
    /\ res.status = 400
    /\ calls = 0
    /\ NothingStored

\* C19: with the default configuration a client that sends up to 30 read
\* operations within one minute, and nothing else, gets no 429.
C19_ThirtyReads ==
  (/\ ~rateEnv.set
   /\ onlyReads
   /\ now = 0
   /\ attempts <= 30) => ~readRejected

\* the values of a are pairwise distinct
Distinct(a) == \A k, m \in DOMAIN a : k # m => a[k] # a[m]

\* no step of the returned trace holds the array of the step before it
EveryStepChanges == \A k \in 2..Len(Trace) : ArrayOf(Trace[k]) # ArrayOf(Trace[k - 1])

\* C21 as stated: for every valid input, duplicates included, and each of the
\* four algorithms no step's array equals the array of the step before it.
C21_RealMutation ==
  (Returned /\ ValidInput /\ algorithm \in SupportedIds) => EveryStepChanges

\* C21 amended: no step's array equals the array of the step before it in the
\* traces of bubble and selection sort for every valid input, and in the
\* traces of quick and insertion sort when the values of the input are
\* pairwise distinct (with duplicates the pivot placement of quick sort and a
\* shift of insertion sort can write a value over an equal one and still
\* record the step).
C21_RealMutationDistinct ==
  (/\ Returned /\ ValidInput /\ algorithm \in SupportedIds
   /\ (algorithm \in {"bubble", "selection"} \/ Distinct(callerInput))) =>
    EveryStepChanges

C21_Witness ==
  /\ Returned /\ ValidInput /\ algorithm = "insertion"
  /\ callerInput = <<3, 2, 1>>
  /\ Len(Trace) = 6
  /\ EveryStepChanges

\* the index pairs of the steps of the returned trace after step 0
TracePairs == [k \in 1..(Len(Trace) - 1) |-> Trace[k + 1].swapIndices]

\* the number of shifts insertion sort makes for the zero-based position p of
\* the input a: the values left of p that exceed the key a[p]
ShiftsAt(a, p) == Cardinality({k \in 1..p : a[k] > a[p + 1]})

\* the pairs insertion sort is to record for position p: one [j, j+1] per
\* shift, from j = p - 1 downwards, then [restingIndex, p] if the key moved
PairsAt(a, p) ==
  LET n == ShiftsAt(a, p)
  IN [m \in 1..n |-> <<p - m, p - m + 1>>]
       \o (IF n > 0 THEN <<(<<p - n, p>>)>> ELSE <<>>)

\* the comparisons for position p: one per shift, and the one that stopped the
\* loop unless the key went to the front
ComparisonsAt(a, p) ==
  ShiftsAt(a, p) + (IF ShiftsAt(a, p) < p THEN 1 ELSE 0)

RECURSIVE PairsFrom(_, _)
PairsFrom(a, p) ==
  IF p > Len(a) - 1 THEN <<>> ELSE PairsAt(a, p) \o PairsFrom(a, p + 1)

RECURSIVE ComparisonsFrom(_, _)
ComparisonsFrom(a, p) ==
  IF p > Len(a) - 1 THEN 0 ELSE ComparisonsAt(a, p) + ComparisonsFrom(a, p + 1)

\* C22: the trace of insertion sort holds, position by position from 1 to
\* n-1, one step [j, j+1] per leftward shift and then exactly one step
\* [restingIndex, i] when the key came to rest left of i; a key that stays at
\* i adds no step, though its comparison is counted.
C22_InsertionSteps ==
  (Returned /\ ValidInput /\ algorithm = "insertion"
   /\ ~NonDecreasing(callerInput)) =>
    /\ TracePairs = PairsFrom(callerInput, 1)
    /\ result.totalComparisons = ComparisonsFrom(callerInput, 1)

C22_Witness ==
  /\ Returned /\ ValidInput /\ algorithm = "insertion"
  /\ callerInput = <<2, 3, 1>>
  /\ TracePairs = << <<1, 2>>, <<0, 1>>, <<0, 2>> >>
  /\ result.totalComparisons = 3

\* quick sort is under way
QuickRunning == pc \in {"quick_helper", "partition_for_j"}

\* the zero-based positions of the range being partitioned and of the ranges
\* whose call is still to come
Covered ==
  (IF pc = "partition_for_j" THEN low..high ELSE {})
    \cup UNION {stack[m].low..stack[m].high : m \in 1..Len(stack)}

\* the positions quick sort has finished with: pivots that were placed and
\* ranges of at most one element
Settled == (0..(Len(heap[sortedArray]) - 1)) \ Covered

\* the calls still to come lie from left to right in the order they will run
LeftToRight == \A m \in 1..(Len(stack) - 1) : stack[m].high < stack[m + 1].low

\* C23: in quick sort a step touches only the range being partitioned, every
\* range still to come lies to the right of it and the ranges to come run from
\* left to right (so the steps of a left part all precede the steps of the
\* right part), and a placed pivot keeps its position and value to the end.
C23_LeftBeforeRight ==
  [][QuickRunning =>
       /\ LeftToRight
       /\ pc' \in {"quick_helper", "partition_for_j"} => LeftToRight'
       /\ pc = "partition_for_j" =>
            \A m \in 1..Len(stack) : stack[m].low > high
       /\ Len(steps') > Len(steps) =>
            /\ pc = "partition_for_j"
            /\ steps'[Len(steps')].swapIndices[1] \in low..high
            /\ steps'[Len(steps')].swapIndices[2] \in low..high
       /\ \A k \in Settled :
            /\ heap'[sortedArray][k + 1] = heap[sortedArray][k + 1]
            /\ pc' \in {"quick_helper", "partition_for_j"} => k \in Settled'
       /\ (pc = "partition_for_j" /\ pc' = "quick_helper") =>
            /\ (i + 1) \in Settled'
            /\ heap'[sortedArray][(i + 1) + 1] = pivot]_vars

C23_Witness ==
  /\ Returned /\ algorithm = "quick"
  /\ callerInput = TwoSidedInput
  /\ TracePairs = << <<2, 4>>, <<0, 1>>, <<3, 4>> >>

\* the pairs of positions of a that are out of order
Inversions(a) == Cardinality({pr \in (DOMAIN a) \X (DOMAIN a) :
                                pr[1] < pr[2] /\ a[pr[1]] > a[pr[2]]})

\* C24: bubble sort records a step exactly on each swap of an adjacent pair
\* that is out of order, so the number of steps after step 0 equals the number
\* of inversions of the input, and the early exit after a pass without swap
\* loses no swap: the result is sorted.
C24_StepsAreInversions ==
  (Returned /\ ValidInput /\ algorithm = "bubble") =>
    /\ Len(Trace) - 1 = Inversions(callerInput)
    /\ \A k \in 2..Len(Trace) :
         LET x == Trace[k].swapIndices[1]
             y == Trace[k].swapIndices[2]
             prev == ArrayOf(Trace[k - 1])
         IN /\ y = x + 1
            /\ x \in 0..(Len(prev) - 2)
            /\ prev[x + 1] > prev[y + 1]
            /\ Inversions(ArrayOf(Trace[k])) = Inversions(prev) - 1
    /\ NonDecreasing(SortedOut)

C24_Witness ==
  /\ Returned /\ ValidInput /\ algorithm = "bubble"
  /\ callerInput = <<2, 3, 1, 1>>
  /\ Inversions(callerInput) = 4
  /\ Len(Trace) = 5
  /\ result.totalComparisons > 4

\* C26 as stated: the array of every step of the trace is a permutation of
\* the input, for each of the four algorithms.
C26_EveryStepPermutation ==
  (Returned /\ ValidInput /\ algorithm \in SupportedIds) =>
    \A k \in 1..Len(Trace) : SameMultiset(ArrayOf(Trace[k]), callerInput)

\* C26 amended: in the traces of bubble, quick and selection sort the array of
\* every step is a permutation of the input; in the trace of insertion sort
\* the first and the last step are, and a step whose array is not a
\* permutation is the snapshot after a shift: its pair is [j, j+1] and both
\* positions hold the shifted value while the key is not in the array.
C26_PermutationButShifts ==
  (Returned /\ ValidInput /\ algorithm \in SupportedIds) =>
    /\ SameMultiset(ArrayOf(Trace[1]), callerInput)
    /\ SameMultiset(ArrayOf(LastStep), callerInput)
    /\ \A k \in 2..Len(Trace) :
         \/ SameMultiset(ArrayOf(Trace[k]), callerInput)
         \/ /\ algorithm = "insertion"
            /\ Trace[k].swapIndices[2] = Trace[k].swapIndices[1] + 1
            /\ ArrayOf(Trace[k])[Trace[k].swapIndices[1] + 1]
                 = ArrayOf(Trace[k])[Trace[k].swapIndices[2] + 1]

C26_Witness ==
  /\ Returned /\ ValidInput /\ algorithm = "insertion"
  /\ callerInput = <<1, 3, 2>>
  /\ Len(Trace) = 3
  /\ ArrayOf(Trace[2]) = <<1, 3, 3>>
  /\ ArrayOf(Trace[3]) = <<1, 2, 3>>

\* the arrays of the steps of the returned trace
Snapshots == [k \in 1..Len(Trace) |-> ArrayOf(Trace[k])]

\* C25: on every input the legacy bubbleSort and SortingAlgorithms.bubbleSort
\* record the same sequence of array snapshots and return the same sorted
\* array, also when the new one is reached through SortingAlgorithms.sort and
\* its fast path for sorted inputs.
C25_LegacyAgrees ==
  (legacy # NoLegacy /\ Returned) =>
    /\ Snapshots = legacy.steps
    /\ SortedOut = legacy.sortedArray

C25_Witness ==
  /\ legacy # NoLegacy /\ Returned
  /\ callerInput = <<3, 1, 2, 1>>
  /\ Len(legacy.steps) = 5
  /\ result.totalComparisons = 6
  /\ legacy.sortedArray = <<1, 1, 2, 3>>

\* C27: isValidArray accepts every non-empty originalArray within the
\* configured maximum size, so that a POST whose sort returned creates its
\* session and is answered 201.
C27_ValidSessionAccepted ==
  (/\ sent.route = PostSort
   /\ ValidContent(sent.numbers)
   /\ stage \in {"sorting", "responded"}
   /\ pc = "done") =>
    /\ ~IsValidArrayThrows(sent.numbers, env)
    /\ stage = "responded" =>
         /\ res.status = 201
         /\ \E n \in 1..Len(sessions) : sessions[n].originalArray = sent.numbers

\* the step rows of the session with the identifier id
RowsOf(id) == {k \in 1..Len(stepRows) : stepRows[k].sessionId = id}

Answered == errorStage = "responded"
Generic == <<"internal server error">>

\* C29 as stated: an error with a statusCode is answered with that status and
\* its own message, every error without a statusCode with 500 and the generic
\* message, and exactly one response is sent.
C29_StatusOrGeneric ==
  Answered =>
    /\ responses = 1
    /\ err.statusCode # 0 =>
         errorRes.status = err.statusCode /\ errorRes.error = err.message
    /\ err.statusCode = 0 =>
         errorRes.status = 500 /\ errorRes.error = Generic

\* the errors errorHandler converts before its default: database errors, Joi
\* validation errors and token errors
Converted(e) ==
  \/ StartsWithSequelize(e.name)
  \/ e.isJoi
  \/ e.name \in {"JsonWebTokenError", "TokenExpiredError"}

\* C29 amended: an error with a statusCode is answered with that status and
\* its own message; an error without a statusCode that is neither a database
\* error, nor a Joi error, nor a token error (so every plain error of
\* SortingAlgorithms.sort) is answered with 500 and the generic message; a
\* database error is answered with 503, 400, 409 or 500, a Joi error with 400,
\* a token error with 401, none of them with the generic message nor with the
\* error's own message; exactly one response is sent.
C29_StatusOrConverted ==
  Answered =>
    /\ responses = 1
    /\ err.statusCode # 0 =>
         errorRes.status = err.statusCode /\ errorRes.error = err.message
    /\ (err.statusCode = 0 /\ ~Converted(err)) =>
         errorRes.status = 500 /\ errorRes.error = Generic
    /\ Converted(err) =>
         /\ errorRes.error \notin {Generic, err.message}
         /\ StartsWithSequelize(err.name) => errorRes.status \in {503, 400, 409, 500}
         /\ err.name = "SequelizeConnectionError" => errorRes.status = 503
         /\ err.name = "SequelizeUniqueConstraintError" => errorRes.status = 409
         /\ err.isJoi => errorRes.status = 400
         /\ err.name \in {"JsonWebTokenError", "TokenExpiredError"} =>
              errorRes.status = 401

C29_Witness ==
  /\ Answered
  /\ err.name = "Error" /\ err.statusCode = 0
  /\ err.message = <<"Unsupported sorting algorithm">>
  /\ errorRes.status = 500 /\ errorRes.error = Generic
  /\ responses = 1

\* C30: when the running server has received SIGTERM or SIGINT and the process
\* has exited, the HTTP server was closed, its close callback has run and the
\* database connection was closed before the exit.
C30_GracefulShutdown ==
  (/\ node.signal # "" /\ node.startServer = "done"
   /\ node.process = "exited") =>
    /\ node.server = "closed"
    /\ node.closeCallback
    /\ node.db = "closed"
====
